---- MODULE Spec2Model ----
(***************************************************************************)
(* State-machine model of the mempool fixed-size block allocator           *)
(* (two-buffer, opaque-handle version: mempool_init .. mempool_set_sync).  *)
(*                                                                         *)
(* Pointers are natural numbers (byte addresses), NULL is 0.  The control  *)
(* block (struct mempool) lives in the state region and is the record      *)
(* `pool`.  Of the pool region the model keeps what the library reads: the *)
(* bitmap bytes (`bitmap`, indexed by byte) and the first pointer-sized    *)
(* word of every block (`link`, indexed by block index; it holds          *)
(* free_node_t.next while the block is on the free list).                  *)
(***************************************************************************)
EXTENDS Integers, Sequences, FiniteSets, TLC

VARIABLES
    pool,       \* struct mempool in the state region
    bitmap,     \* pool->bitmap[0 .. bitmap_bytes-1]
    link,       \* first word of block i, i in 0 .. total_blocks-1
    pool_out,   \* the caller's handle variable (*pool_out of mempool_init)
    ret,        \* the last call: operation, arguments, result, outputs, hook calls
    held,       \* history: blocks handed out and not yet freed or revoked
    run,        \* history: the blocks of the consecutive allocs since init/reset
    freed,      \* history: blocks freed since the last alloc, reset or init
    stale,      \* history: per client, blocks it freed and has not received again
    hist,       \* history: what reset, LIFO order and peak usage are measured against
    mutex,      \* the std::mutex of the hook: the thread that owns it, or 0
    thread,     \* per worker thread: the call it is in, its position and locals
    lin,        \* history: the pool as the calls leave it, run one at a time
                \* in the order in which they took the lock
    other       \* the second pool of a caller that has two: its memory and
                \* handle while the calls go to the first

vars == <<pool, bitmap, link, pool_out, ret, held, run, freed, stale, hist,
          mutex, thread, lin, other>>

\* what the calls of the single-threaded callers leave alone: the worker
\* threads and the memory of the pool they are not called on
threads == <<mutex, thread, lin, other>>

-----------------------------------------------------------------------------
(* Program constants *)

NULL == 0

MEMPOOL_OK                  == 0
MEMPOOL_ERR_NULL_PTR        == 1
MEMPOOL_ERR_INVALID_SIZE    == 2
MEMPOOL_ERR_OUT_OF_MEMORY   == 3
MEMPOOL_ERR_INVALID_BLOCK   == 4
MEMPOOL_ERR_ALIGNMENT       == 5
MEMPOOL_ERR_DOUBLE_FREE     == 6
MEMPOOL_ERR_NOT_INITIALIZED == 7

\* sizeof(free_node_t): one pointer on an LP64 target
SizeofFreeNode == 8

\* sizeof(struct mempool) on an LP64 target
SizeofMempool == 112

\* MEMPOOL_STATE_SIZE, the size of the state buffers the callers declare
MEMPOOL_STATE_SIZE == 128

-----------------------------------------------------------------------------
(* Integer widths *)

\* The code computes in two widths: uint32_t (the fields and counters of the
\* control block) and size_t / uintptr_t (sizes and addresses, twice as
\* wide on an LP64 target).  TLC's integers end at 2^31 - 1, so the model
\* keeps both widths at a scale: uint32_t has Uint32Bits bits and size_t
\* twice as many.  Every wrap and every truncation of the code happens in
\* the model at the scaled limits.
Uint32Bits == 8

UINT32_MAX == 2 ^ Uint32Bits - 1

SIZE_MAX == 2 ^ (2 * Uint32Bits) - 1

\* (uint32_t)x
U32(x) == x % (UINT32_MAX + 1)

\* x reduced to size_t, as unsigned arithmetic does after + and *
Size(x) == x % (SIZE_MAX + 1)

-----------------------------------------------------------------------------
(* Bounds of the model *)

\* cap on stats.alloc_count for the callers that stop after a few calls
MaxAllocs == 4

\* the clients (callers) that share the pool handle
Clients == {1, 2}

-----------------------------------------------------------------------------
(* Bit arithmetic on naturals, as the C operators compute it *)

RECURSIVE BitAnd(_, _)
BitAnd(a, b) ==
    IF a = 0 \/ b = 0 THEN 0
    ELSE (a % 2) * (b % 2) + 2 * BitAnd(a \div 2, b \div 2)

RECURSIVE BitOr(_, _)
BitOr(a, b) ==
    IF a = 0 THEN b
    ELSE IF b = 0 THEN a
    ELSE (IF (a % 2) + (b % 2) > 0 THEN 1 ELSE 0) + 2 * BitOr(a \div 2, b \div 2)

RECURSIVE Shl1(_)
Shl1(n) == IF n = 0 THEN 1 ELSE 2 * Shl1(n - 1)

\* (uint8_t)(~mask) for a mask below 256
NotU8(mask) == 255 - mask

is_power_of_two(value) ==
    IF value > 0 THEN BitAnd(value, value - 1) = 0 ELSE FALSE

\* (value + mask) & ~mask, written as x - (x & mask)
align_up(value, alignment) ==
    LET mask == alignment - 1
        sum  == Size(value + mask)
    IN  sum - BitAnd(sum, mask)

-----------------------------------------------------------------------------
(* Addresses and argument values the callers use *)

\* address of the caller's state buffer (state_buf)
StateBuf == 4096

\* address of the caller's pool buffer (pool_buf), aligned to 16
PoolBuf == 8192

\* address of a buffer outside both regions (external)
ExternalBuf == 12288

\* the lock and unlock callbacks and the context a caller installs
LockFn   == 101
UnlockFn == 102
UserCtx  == 103

\* address of the caller's variable that receives the block or the stats
OutVar == 16384

\* the output pointer of a call: &variable, or NULL
OutArg(out) == IF out THEN OutVar ELSE NULL

\* the callbacks and the context of another caller (pool_lock, pool_unlock, &ctx)
PoolLockFn   == 111
PoolUnlockFn == 112
PoolCtx      == 113


InitArg(sb, ss, pb, ps, bs, al, po) ==
    [state_buffer |-> sb, state_buffer_size |-> ss, pool_buffer |-> pb,
     pool_buffer_size |-> ps, block_size |-> bs, alignment |-> al,
     pool_out |-> po]

\* (pool_buffer_size, block_size, alignment) of the pools the callers set up
Layouts == { <<16, 8, 8>>, <<32, 8, 8>>, <<25, 8, 1>>, <<40, 12, 8>> }

\* the argument tuples of mempool_init: every layout above, and one tuple
\* per argument check
InitArgs ==
    { InitArg(StateBuf, MEMPOOL_STATE_SIZE, PoolBuf, l[1], l[2], l[3], TRUE) :
        l \in Layouts }
    \cup
    { InitArg(NULL, MEMPOOL_STATE_SIZE, PoolBuf, 32, 8, 8, TRUE),
      InitArg(StateBuf, MEMPOOL_STATE_SIZE, NULL, 32, 8, 8, TRUE),
      InitArg(StateBuf, MEMPOOL_STATE_SIZE, PoolBuf, 32, 8, 8, FALSE),
      InitArg(StateBuf, SizeofMempool - 1, PoolBuf, 32, 8, 8, TRUE),
      InitArg(StateBuf, MEMPOOL_STATE_SIZE, PoolBuf, 0, 8, 8, TRUE),
      InitArg(StateBuf, MEMPOOL_STATE_SIZE, PoolBuf, 32, 0, 8, TRUE),
      InitArg(StateBuf, MEMPOOL_STATE_SIZE, PoolBuf, 32, 8, 0, TRUE),
      InitArg(StateBuf, MEMPOOL_STATE_SIZE, PoolBuf, 32, 8, 3, TRUE),
      InitArg(StateBuf, MEMPOOL_STATE_SIZE, PoolBuf + 1, 31, 8, 8, TRUE),
      InitArg(StateBuf, MEMPOOL_STATE_SIZE, PoolBuf, 32, 4, 4, TRUE),
      InitArg(StateBuf, MEMPOOL_STATE_SIZE, PoolBuf, 7, 8, 8, TRUE),
      InitArg(StateBuf, MEMPOOL_STATE_SIZE, PoolBuf, 15, 8, 8, TRUE) }

-----------------------------------------------------------------------------
(* The control block *)

ZeroStats ==
    [total_blocks |-> 0, used_blocks |-> 0, free_blocks |-> 0,
     peak_usage |-> 0, alloc_count |-> 0, free_count |-> 0, block_size |-> 0]

NoSync == [lock |-> NULL, unlock |-> NULL, user_ctx |-> NULL]

\* memset(pool, 0, sizeof(struct mempool))
ZeroPool ==
    [pool_buffer_start |-> NULL, blocks_start |-> NULL, free_list |-> NULL,
     bitmap |-> NULL, bitmap_bytes |-> 0, block_size |-> 0,
     total_blocks |-> 0, free_blocks |-> 0, alignment |-> 0,
     stats |-> ZeroStats, sync |-> NoSync, sync_enabled |-> FALSE,
     initialized |-> FALSE]

\* address of block i of control block p
BlockAddr(p, i) == p.blocks_start + i * p.block_size

\* mempool_block_index
mempool_block_index(p, ptr) == (ptr - p.blocks_start) \div p.block_size

\* ((free_node_t *)ptr)->next
NodeNext(p, lk, ptr) == lk[mempool_block_index(p, ptr)]

\* mempool_internal_lock that never calls the hook
mempool_internal_lock_Off(p) == <<>>

\* the calls mempool_internal_lock / mempool_internal_unlock make
mempool_internal_lock(p) ==
    IF p.sync_enabled /\ p.sync.lock # NULL
    THEN <<[fn |-> p.sync.lock, ctx |-> p.sync.user_ctx]>> ELSE <<>>

\* mempool_internal_unlock that does not look at sync_enabled
mempool_internal_unlock_AnyFn(p) ==
    IF p.sync.unlock # NULL
    THEN <<[fn |-> p.sync.unlock, ctx |-> p.sync.user_ctx]>> ELSE <<>>

mempool_internal_unlock(p) ==
    IF p.sync_enabled /\ p.sync.unlock # NULL
    THEN <<[fn |-> p.sync.unlock, ctx |-> p.sync.user_ctx]>> ELSE <<>>

\* what a call does, in program order: a call of a hook, or a read or a
\* write of a part of the pool's memory
\*   "initialized"  pool->initialized
\*   "layout"       blocks_start, block_size, total_blocks, bitmap_bytes
\*   "sync"         pool->sync, pool->sync_enabled
\*   "free_list"    pool->free_list
\*   "link"         the first word of a block
\*   "free_blocks"  pool->free_blocks
\*   "stats"        pool->stats
\*   "bitmap"       a byte of pool->bitmap
HookCall(h) == [ev |-> "call", fn |-> h.fn, ctx |-> h.ctx, field |-> ""]
Read(field)  == [ev |-> "read", fn |-> NULL, ctx |-> NULL, field |-> field]
Write(field) == [ev |-> "write", fn |-> NULL, ctx |-> NULL, field |-> field]

\* the events of the hook calls hs
HookCalls(hs) == [k \in 1 .. Len(hs) |-> HookCall(hs[k])]

IsHookCall(e) == e.ev = "call"

\* the hook calls among the events of a call, in order
HooksOf(events) ==
    LET calls == SelectSeq(events, IsHookCall)
    IN  [k \in 1 .. Len(calls) |-> [fn |-> calls[k].fn, ctx |-> calls[k].ctx]]

\* the record of a call: its arguments, its result, the events it went
\* through with the hook calls among them, and the caller's output
\* variables after it (*block and *stats, which the caller sets to NULL
\* and to zero before the call)
CallOut(op, c, p, arg, result, events, blk, st) ==
    [op |-> op, client |-> c, pool |-> p, arg |-> arg, result |-> result,
     hooks |-> HooksOf(events), trace |-> events, block |-> blk, stats |-> st]

Call(op, c, p, arg, result, events) ==
    CallOut(op, c, p, arg, result, events, NULL, ZeroStats)

\* the events of a call up to the initialized check, and up to the range
\* and boundary checks of mempool_free
CheckedInitialized == <<Read("initialized")>>
CheckedBlock       == <<Read("initialized"), Read("layout")>>

NoStale == [c \in Clients |-> {}]

\* a run of allocs starts at a successful init or reset and ends at the
\* first call that is not an alloc on the initialized pool
FreshRun  == [fresh |-> TRUE, blocks |-> <<>>]
BrokenRun == [fresh |-> FALSE, blocks |-> <<>>]

\* no snapshot of the pool is kept
NoSnapshot == [taken |-> FALSE]

\* the memory of a pool: the control block, the bitmap and the link words
Snapshot(p, bm, lk) ==
    [taken |-> TRUE, pool |-> p, bitmap |-> bm, link |-> lk]

\* the history of a pool that does not exist:
\*   track       whether the pointers a reset revokes are recorded
\*   revoked     pointers alloc returned before a reset of this pool
\*   initial     the pool as the last successful init left it
\*   last_freed  the block of the last successful free, NULL once an alloc,
\*               a reset or an init followed it
\*   before      the pool before the last successful alloc, while the only
\*               calls since are that alloc and a successful free of the
\*               block it returned
\*   high        the largest used_blocks since the last init or reset
\*   installed   the (lock, unlock, user_ctx) of the last successful
\*               mempool_set_sync on this pool
\*   reused      whether the last successful init ran on the buffers of a
\*               pool with blocks in use and a hook installed (recorded
\*               when track is set)
\*   long        whether the caller goes on for as long as it likes: the
\*               other callers stop once alloc_count has reached MaxAllocs
NoHist ==
    [track |-> FALSE, revoked |-> {}, initial |-> NoSnapshot,
     last_freed |-> NULL, before |-> NoSnapshot, high |-> 0,
     installed |-> <<NULL, NULL, NULL>>, reused |-> FALSE, long |-> FALSE]

\* the history of a pool that init has just written
ClearHist(h) == [NoHist EXCEPT !.track = h.track, !.long = h.long]

\* the history after a call that was not a successful alloc
Later(h) == [h EXCEPT !.before = NoSnapshot]

Max(a, b) == IF a > b THEN a ELSE b

\* the frame of a call that returns before it changes anything
Failed ==
    /\ run' = BrokenRun
    /\ hist' = Later(hist)
    /\ UNCHANGED <<pool, bitmap, link, pool_out, held, freed, stale>>

-----------------------------------------------------------------------------
(* mempool_init *)

\* the while loop of mempool_init: the largest n <= max_blocks that fits
RECURSIVE LayoutSearch(_, _, _, _, _, _)
LayoutSearch(n, bitmap_bytes, blocks_offset, pool_buffer_size, aligned_block_size, alignment) ==
    IF n = 0
    THEN [found |-> FALSE, n |-> 0, bitmap_bytes |-> bitmap_bytes,
          blocks_offset |-> blocks_offset]
    ELSE LET bb       == Size(n + 7) \div 8
             mod      == BitAnd(bb, alignment - 1)
             pad      == IF alignment > 1 /\ mod # 0 THEN alignment - mod ELSE 0
             off      == Size(bb + pad)
             required == Size(off + Size(n * aligned_block_size))
         IN  IF required <= pool_buffer_size
             THEN [found |-> TRUE, n |-> n, bitmap_bytes |-> bb,
                   blocks_offset |-> off]
             ELSE LayoutSearch(n - 1, bb, off, pool_buffer_size,
                               aligned_block_size, alignment)

\* BuildLinks with every block linked to the block after it
BuildLinks_Forward(blocks_start, block_size, n) ==
    [i \in 0 .. n - 1 |->
        IF i = n - 1 THEN NULL ELSE blocks_start + (i + 1) * block_size]

\* the free list mempool_init and mempool_reset thread through n blocks:
\* block 0 ends the list, block i links to block i-1
BuildLinks(blocks_start, block_size, n) ==
    [i \in 0 .. n - 1 |->
        IF i = 0 THEN NULL ELSE Size(blocks_start + (i - 1) * block_size)]

BuildHead(blocks_start, block_size, n) ==
    IF n = 0 THEN NULL ELSE Size(blocks_start + (n - 1) * block_size)

\* InitArgCheck with the block size checked before the alignment
InitArgCheck_SizeFirst(a) ==
    IF a.state_buffer = NULL \/ a.pool_buffer = NULL \/ ~a.pool_out
        THEN MEMPOOL_ERR_NULL_PTR
    ELSE IF a.state_buffer_size < SizeofMempool
        THEN MEMPOOL_ERR_INVALID_SIZE
    ELSE IF a.pool_buffer_size = 0 \/ a.block_size = 0
        THEN MEMPOOL_ERR_INVALID_SIZE
    ELSE IF a.block_size < SizeofFreeNode
        THEN MEMPOOL_ERR_INVALID_SIZE
    ELSE IF ~is_power_of_two(a.alignment)
        THEN MEMPOOL_ERR_ALIGNMENT
    ELSE IF BitAnd(a.pool_buffer, a.alignment - 1) # 0
        THEN MEMPOOL_ERR_ALIGNMENT
    ELSE MEMPOOL_OK

\* the argument checks made before the state region is written
InitArgCheck(a) ==
    IF a.state_buffer = NULL \/ a.pool_buffer = NULL \/ ~a.pool_out
        THEN MEMPOOL_ERR_NULL_PTR
    ELSE IF a.state_buffer_size < SizeofMempool
        THEN MEMPOOL_ERR_INVALID_SIZE
    ELSE IF a.pool_buffer_size = 0 \/ a.block_size = 0
        THEN MEMPOOL_ERR_INVALID_SIZE
    ELSE IF ~is_power_of_two(a.alignment)
        THEN MEMPOOL_ERR_ALIGNMENT
    ELSE IF BitAnd(a.pool_buffer, a.alignment - 1) # 0
        THEN MEMPOOL_ERR_ALIGNMENT
    ELSE IF a.block_size < SizeofFreeNode
        THEN MEMPOOL_ERR_INVALID_SIZE
    ELSE MEMPOOL_OK

\* the division traps (SIGFPE): the call does not return
Trap == -1

\* x / y in size_t.  A division by zero is undefined: the divide
\* instruction traps (x86), gives 0 (Arm) or gives all ones (RISC-V)
Quotients(x, y) == IF y = 0 THEN {Trap, 0, SIZE_MAX} ELSE {x \div y}

\* InitLayout with the search started one block below max_blocks
InitLayout_StartLow(a, max_blocks) ==
    LET aligned_block_size == align_up(a.block_size, a.alignment)
    IN  [aligned_block_size |-> aligned_block_size,
         max_blocks |-> max_blocks,
         search |-> LayoutSearch(max_blocks - 1, 0, 0, a.pool_buffer_size,
                                 aligned_block_size, a.alignment)]

\* aligned_block_size, max_blocks (the quotient
\* pool_buffer_size / aligned_block_size) and the outcome of the search
InitLayout(a, max_blocks) ==
    LET aligned_block_size == align_up(a.block_size, a.alignment)
    IN  [aligned_block_size |-> aligned_block_size,
         max_blocks |-> max_blocks,
         search |-> IF max_blocks = Trap
                    THEN LayoutSearch(0, 0, 0, a.pool_buffer_size,
                                      aligned_block_size, a.alignment)
                    ELSE LayoutSearch(max_blocks, 0, 0, a.pool_buffer_size,
                                      aligned_block_size, a.alignment)]

\* InitPool that leaves the hook fields as they are
InitPool_KeepSync(a, lay) ==
    LET n == U32(lay.search.n)
        bs == Size(a.pool_buffer + lay.search.blocks_offset)
    IN  [pool_buffer_start |-> a.pool_buffer,
         blocks_start |-> bs,
         free_list |-> BuildHead(bs, lay.aligned_block_size, n),
         bitmap |-> a.pool_buffer,
         bitmap_bytes |-> U32(lay.search.bitmap_bytes),
         block_size |-> U32(lay.aligned_block_size),
         total_blocks |-> n,
         free_blocks |-> n,
         alignment |-> U32(a.alignment),
         stats |-> [total_blocks |-> n, used_blocks |-> 0, free_blocks |-> n,
                    peak_usage |-> 0, alloc_count |-> 0, free_count |-> 0,
                    block_size |-> U32(lay.aligned_block_size)],
         sync |-> pool.sync,
         sync_enabled |-> pool.sync_enabled,
         initialized |-> TRUE]

\* the control block a successful mempool_init writes
InitPool(a, lay) ==
    LET n == U32(lay.search.n)
        bs == Size(a.pool_buffer + lay.search.blocks_offset)
    IN  [pool_buffer_start |-> a.pool_buffer,
         blocks_start |-> bs,
         free_list |-> BuildHead(bs, lay.aligned_block_size, n),
         bitmap |-> a.pool_buffer,
         bitmap_bytes |-> U32(lay.search.bitmap_bytes),
         block_size |-> U32(lay.aligned_block_size),
         total_blocks |-> n,
         free_blocks |-> n,
         alignment |-> U32(a.alignment),
         stats |-> [total_blocks |-> n, used_blocks |-> 0, free_blocks |-> n,
                    peak_usage |-> 0, alloc_count |-> 0, free_count |-> 0,
                    block_size |-> U32(lay.aligned_block_size)],
         sync |-> NoSync,
         sync_enabled |-> FALSE,
         initialized |-> TRUE]

\* the writes of the memset of the state region, and those of the rest of
\* a successful mempool_init
InitZeroEvents ==
    <<Write("layout"), Write("free_list"), Write("free_blocks"),
      Write("stats"), Write("sync"), Write("initialized")>>

InitEvents ==
    InitZeroEvents
    \o <<Write("layout"), Write("free_blocks"), Write("stats"), Write("sync"),
         Write("initialized"), Write("bitmap"), Write("link"),
         Write("free_list")>>

mempool_init(c, a) ==
    LET chk == InitArgCheck(a)
    IN  IF chk # MEMPOOL_OK
        THEN /\ UNCHANGED threads
             /\ ret' = Call("init", c, a.state_buffer, a, chk, <<>>)
             /\ Failed
        ELSE \E max_blocks \in Quotients(a.pool_buffer_size,
                                         align_up(a.block_size, a.alignment)) :
        LET lay == InitLayout(a, max_blocks)
        IN
        IF \/ max_blocks \in {Trap, 0}
           \/ ~lay.search.found \/ lay.search.n = 0
           \/ lay.search.n > UINT32_MAX \/ lay.search.bitmap_bytes > UINT32_MAX
        THEN \* the state region has been zeroed by then
             /\ pool' = ZeroPool
             /\ UNCHANGED threads
             /\ ret' = Call("init", c, a.state_buffer, a,
                            IF max_blocks = Trap
                            THEN Trap ELSE MEMPOOL_ERR_INVALID_SIZE,
                            InitZeroEvents)
             /\ run' = BrokenRun
             /\ hist' = ClearHist(hist)
             /\ UNCHANGED <<bitmap, link, pool_out, held, freed, stale>>
        ELSE /\ pool' = InitPool(a, lay)
             /\ bitmap' = [i \in 0 .. lay.search.bitmap_bytes - 1 |-> 0]
             /\ link' = BuildLinks(pool'.blocks_start, lay.aligned_block_size,
                                   lay.search.n)
             /\ pool_out' = a.state_buffer
             /\ UNCHANGED threads
             /\ ret' = Call("init", c, a.state_buffer, a, MEMPOOL_OK,
                            InitEvents)
             /\ held' = {}
             /\ run' = FreshRun
             /\ freed' = {}
             /\ stale' = NoStale
             /\ hist' = [ClearHist(hist) EXCEPT
                            !.initial = Snapshot(pool', bitmap', link'),
                            !.reused = /\ hist.track
                                       /\ pool.initialized
                                       /\ pool.stats.used_blocks > 0
                                       /\ pool.sync_enabled]

-----------------------------------------------------------------------------
(* mempool_alloc *)

\* BitmapSet that leaves the bit clear
BitmapSet_Skip(p, bm, index) == bm

\* pool->bitmap[byte_index] | mask for block `index`, when the byte exists
BitmapSet(p, bm, index) ==
    LET byte_index == index \div 8
        mask       == Shl1(index % 8)
    IN  IF byte_index < p.bitmap_bytes
        THEN [bm EXCEPT ![byte_index] = BitOr(bm[byte_index], mask)]
        ELSE bm

\* AllocPool with the head left in place
AllocPool_NoPop(p, lk) ==
    LET fb   == p.free_blocks - 1
        used == p.total_blocks - fb
    IN  [p EXCEPT
            !.free_blocks = fb,
            !.stats = [p.stats EXCEPT
                !.alloc_count = U32(p.stats.alloc_count + 1),
                !.used_blocks = used,
                !.free_blocks = fb,
                !.peak_usage = IF used > p.stats.peak_usage
                               THEN used ELSE p.stats.peak_usage]]

\* AllocPool without the update of stats.free_blocks
AllocPool_StaleFree(p, lk) ==
    LET node == p.free_list
        fb   == p.free_blocks - 1
        used == p.total_blocks - fb
    IN  [p EXCEPT
            !.free_list = NodeNext(p, lk, node),
            !.free_blocks = fb,
            !.stats = [p.stats EXCEPT
                !.alloc_count = U32(p.stats.alloc_count + 1),
                !.used_blocks = used,
                !.peak_usage = IF used > p.stats.peak_usage
                               THEN used ELSE p.stats.peak_usage]]

\* AllocPool with the peak raised only past the first block
AllocPool_NoPeak(p, lk) ==
    LET node == p.free_list
        fb   == p.free_blocks - 1
        used == p.total_blocks - fb
    IN  [p EXCEPT
            !.free_list = NodeNext(p, lk, node),
            !.free_blocks = fb,
            !.stats = [p.stats EXCEPT
                !.alloc_count = U32(p.stats.alloc_count + 1),
                !.used_blocks = used,
                !.free_blocks = fb,
                !.peak_usage = IF used > p.stats.peak_usage + 1
                               THEN used ELSE p.stats.peak_usage]]

\* the control block after the pop of `node` off the free list
AllocPool(p, lk) ==
    LET node == p.free_list
        fb   == p.free_blocks - 1
        used == p.total_blocks - fb
    IN  [p EXCEPT
            !.free_list = NodeNext(p, lk, node),
            !.free_blocks = fb,
            !.stats = [p.stats EXCEPT
                !.alloc_count = U32(p.stats.alloc_count + 1),
                !.used_blocks = used,
                !.free_blocks = fb,
                !.peak_usage = IF used > p.stats.peak_usage
                               THEN used ELSE p.stats.peak_usage]]

\* AllocEvents with a return out of the empty-list branches
AllocEvents_EarlyReturn(p) ==
    CheckedInitialized
    \o HookCalls(mempool_internal_lock(p))
    \o <<Read("free_list")>>
    \o (IF p.free_list = NULL THEN <<>>
        ELSE <<Read("free_blocks")>>
             \o (IF p.free_blocks = 0 THEN <<>>
                 ELSE <<Read("free_list"), Read("link"), Write("free_list"),
                        Write("free_blocks"), Write("stats"), Read("layout"),
                        Write("bitmap")>>
                      \o HookCalls(mempool_internal_unlock(p))))

\* the events of mempool_alloc on an initialized pool
AllocEvents(p) ==
    CheckedInitialized
    \o HookCalls(mempool_internal_lock(p))
    \o <<Read("free_list")>>
    \o (IF p.free_list = NULL THEN <<>>
        ELSE <<Read("free_blocks")>>
             \o (IF p.free_blocks = 0 THEN <<>>
                 ELSE <<Read("free_list"), Read("link"), Write("free_list"),
                        Write("free_blocks"), Write("stats"), Read("layout"),
                        Write("bitmap")>>))
    \o HookCalls(mempool_internal_unlock(p))

\* mempool_alloc with alloc_count raised before the free list is looked at
mempool_alloc_CountsFailure(c, p, out) ==
    IF p = NULL \/ ~out
    THEN /\ UNCHANGED threads
         /\ ret' = Call("alloc", c, p, OutArg(out), MEMPOOL_ERR_NULL_PTR, <<>>)
         /\ Failed
    ELSE IF ~pool.initialized
    THEN /\ UNCHANGED threads
         /\ ret' = Call("alloc", c, p, OutArg(out), MEMPOOL_ERR_NOT_INITIALIZED,
                        CheckedInitialized)
         /\ Failed
    ELSE LET events == AllocEvents(pool)
         IN  IF pool.free_list = NULL \/ pool.free_blocks = 0
             THEN /\ (hist.long \/ pool.stats.alloc_count < MaxAllocs)
                  /\ pool' = [pool EXCEPT !.stats.alloc_count = U32(@ + 1)]
                  /\ UNCHANGED threads
                  /\ ret' = Call("alloc", c, p, OutArg(out),
                                 MEMPOOL_ERR_OUT_OF_MEMORY, events)
                  /\ hist' = Later(hist)
                  /\ UNCHANGED <<bitmap, link, pool_out, held, run,
                                 freed, stale>>
             ELSE LET node == pool.free_list
                  IN  /\ (hist.long \/ pool.stats.alloc_count < MaxAllocs)
                      /\ pool' = AllocPool(pool, link)
                      /\ bitmap' = BitmapSet(pool, bitmap,
                                             mempool_block_index(pool, node))
                      /\ UNCHANGED threads
                      /\ ret' = CallOut("alloc", c, p, OutArg(out), MEMPOOL_OK, events,
                                        node, ZeroStats)
                      /\ held' = held \cup {node}
                      /\ run' = IF run.fresh
                                THEN [run EXCEPT !.blocks = Append(@, node)]
                                ELSE run
                      /\ freed' = {}
                      /\ stale' = [stale EXCEPT ![c] = @ \ {node}]
                      /\ hist' = [hist EXCEPT
                            !.before = Snapshot(pool, bitmap, link),
                            !.last_freed = NULL,
                            !.high = Max(@, pool'.stats.used_blocks)]
                      /\ UNCHANGED <<link, pool_out>>

mempool_alloc(c, p, out) ==
    IF p = NULL \/ ~out
    THEN /\ UNCHANGED threads
         /\ ret' = Call("alloc", c, p, OutArg(out), MEMPOOL_ERR_NULL_PTR, <<>>)
         /\ Failed
    ELSE IF ~pool.initialized
    THEN /\ UNCHANGED threads
         /\ ret' = Call("alloc", c, p, OutArg(out), MEMPOOL_ERR_NOT_INITIALIZED,
                        CheckedInitialized)
         /\ Failed
    ELSE LET events == AllocEvents(pool)
         IN  IF pool.free_list = NULL \/ pool.free_blocks = 0
             THEN /\ UNCHANGED threads
                  /\ ret' = Call("alloc", c, p, OutArg(out),
                                 MEMPOOL_ERR_OUT_OF_MEMORY, events)
                  /\ hist' = Later(hist)
                  /\ UNCHANGED <<pool, bitmap, link, pool_out, held, run,
                                 freed, stale>>
             ELSE LET node == pool.free_list
                  IN  /\ (hist.long \/ pool.stats.alloc_count < MaxAllocs)
                      /\ pool' = AllocPool(pool, link)
                      /\ bitmap' = BitmapSet(pool, bitmap,
                                             mempool_block_index(pool, node))
                      /\ UNCHANGED threads
                      /\ ret' = CallOut("alloc", c, p, OutArg(out), MEMPOOL_OK, events,
                                        node, ZeroStats)
                      /\ held' = held \cup {node}
                      /\ run' = IF run.fresh
                                THEN [run EXCEPT !.blocks = Append(@, node)]
                                ELSE run
                      /\ freed' = {}
                      /\ stale' = [stale EXCEPT ![c] = @ \ {node}]
                      /\ hist' = [hist EXCEPT
                            !.before = Snapshot(pool, bitmap, link),
                            !.last_freed = NULL,
                            !.high = Max(@, pool'.stats.used_blocks)]
                      /\ UNCHANGED <<link, pool_out>>

-----------------------------------------------------------------------------
(* mempool_free *)

\* FreePreCheck with the end of the range included
FreePreCheck_EndIncluded(p, blk) ==
    LET blocks_start_addr == p.blocks_start
        blocks_end_addr   == blocks_start_addr + (p.total_blocks * p.block_size)
    IN  IF blk < blocks_start_addr \/ blk > blocks_end_addr
            THEN MEMPOOL_ERR_INVALID_BLOCK
        ELSE IF (blk - blocks_start_addr) % p.block_size # 0
            THEN MEMPOOL_ERR_INVALID_BLOCK
        ELSE MEMPOOL_OK

\* the range and boundary checks made before the lock is taken
FreePreCheck(p, blk) ==
    LET blocks_start_addr == p.blocks_start
        blocks_end_addr   == blocks_start_addr + (p.total_blocks * p.block_size)
    IN  IF blk < blocks_start_addr \/ blk >= blocks_end_addr
            THEN MEMPOOL_ERR_INVALID_BLOCK
        ELSE IF (blk - blocks_start_addr) % p.block_size # 0
            THEN MEMPOOL_ERR_INVALID_BLOCK
        ELSE MEMPOOL_OK

\* BitmapTest that never finds the bit clear
BitmapTest_AlwaysSet(bm, index) == TRUE

\* BitmapTest with the mask of the neighbouring bit
BitmapTest_NextBit(bm, index) ==
    BitAnd(bm[index \div 8], Shl1((index + 1) % 8)) # 0

\* (byte & mask) != 0 for block `index`
BitmapTest(bm, index) == BitAnd(bm[index \div 8], Shl1(index % 8)) # 0

\* BitmapClear that leaves the bit set
BitmapClear_Keep(bm, index) == bm

\* BitmapClear with the mask of the neighbouring bit
BitmapClear_NextBit(bm, index) ==
    [bm EXCEPT ![index \div 8] = BitAnd(@, NotU8(Shl1((index + 1) % 8)))]

\* (uint8_t)(byte & (uint8_t)(~mask)) stored for block `index`
BitmapClear(bm, index) ==
    [bm EXCEPT ![index \div 8] = BitAnd(@, NotU8(Shl1(index % 8)))]

\* FreePool without the increment of free_blocks
FreePool_NoCount(p, blk) ==
    LET fb == p.free_blocks
    IN  [p EXCEPT
            !.free_list = blk,
            !.free_blocks = fb,
            !.stats = [p.stats EXCEPT
                !.free_count = U32(p.stats.free_count + 1),
                !.used_blocks = p.total_blocks - fb,
                !.free_blocks = fb]]

\* FreePool that moves the head only when the list was empty
FreePool_KeepHead(p, blk) ==
    LET fb == IF p.free_blocks < p.total_blocks
              THEN p.free_blocks + 1 ELSE p.free_blocks
    IN  [p EXCEPT
            !.free_list = IF p.free_list = NULL THEN blk ELSE p.free_list,
            !.free_blocks = fb,
            !.stats = [p.stats EXCEPT
                !.free_count = U32(p.stats.free_count + 1),
                !.used_blocks = p.total_blocks - fb,
                !.free_blocks = fb]]

\* FreePool without the update of stats.used_blocks
FreePool_StaleUsed(p, blk) ==
    LET fb == IF p.free_blocks < p.total_blocks
              THEN p.free_blocks + 1 ELSE p.free_blocks
    IN  [p EXCEPT
            !.free_list = blk,
            !.free_blocks = fb,
            !.stats = [p.stats EXCEPT
                !.free_count = U32(p.stats.free_count + 1),
                !.free_blocks = fb]]

\* FreePool that brings peak_usage down to the blocks still in use
FreePool_LowersPeak(p, blk) ==
    LET fb == IF p.free_blocks < p.total_blocks
              THEN p.free_blocks + 1 ELSE p.free_blocks
    IN  [p EXCEPT
            !.free_list = blk,
            !.free_blocks = fb,
            !.stats = [p.stats EXCEPT
                !.free_count = U32(p.stats.free_count + 1),
                !.used_blocks = p.total_blocks - fb,
                !.free_blocks = fb,
                !.peak_usage = p.total_blocks - fb]]

\* the control block after the push of blk onto the free list
FreePool(p, blk) ==
    LET fb == IF p.free_blocks < p.total_blocks
              THEN p.free_blocks + 1 ELSE p.free_blocks
    IN  [p EXCEPT
            !.free_list = blk,
            !.free_blocks = fb,
            !.stats = [p.stats EXCEPT
                !.free_count = U32(p.stats.free_count + 1),
                !.used_blocks = p.total_blocks - fb,
                !.free_blocks = fb]]

\* the events of mempool_free on an initialized pool, for a pointer that
\* passed the range and boundary checks
FreeEvents(p, bm, blk) ==
    LET index == mempool_block_index(p, blk)
    IN  CheckedBlock
        \o HookCalls(mempool_internal_lock(p))
        \o <<Read("layout")>>
        \o (IF index \div 8 >= p.bitmap_bytes THEN <<>>
            ELSE <<Read("bitmap")>>
                 \o (IF ~BitmapTest(bm, index) THEN <<>>
                     ELSE <<Read("free_list"), Write("link"),
                            Write("free_list"), Write("free_blocks"),
                            Write("stats"), Write("bitmap")>>))
        \o HookCalls(mempool_internal_unlock(p))

mempool_free(c, p, blk) ==
    IF p = NULL \/ blk = NULL
    THEN /\ UNCHANGED threads
         /\ ret' = Call("free", c, p, blk, MEMPOOL_ERR_NULL_PTR, <<>>)
         /\ Failed
    ELSE IF ~pool.initialized
    THEN /\ UNCHANGED threads
         /\ ret' = Call("free", c, p, blk, MEMPOOL_ERR_NOT_INITIALIZED,
                        CheckedInitialized)
         /\ Failed
    ELSE IF FreePreCheck(pool, blk) # MEMPOOL_OK
    THEN /\ UNCHANGED threads
         /\ ret' = Call("free", c, p, blk, FreePreCheck(pool, blk),
                        CheckedBlock)
         /\ Failed
    ELSE LET events == FreeEvents(pool, bitmap, blk)
             index == mempool_block_index(pool, blk)
         IN  IF index \div 8 >= pool.bitmap_bytes
             THEN /\ UNCHANGED threads
                  /\ ret' = Call("free", c, p, blk,
                                 MEMPOOL_ERR_INVALID_BLOCK, events)
                  /\ Failed
             ELSE IF ~BitmapTest(bitmap, index)
             THEN /\ UNCHANGED threads
                  /\ ret' = Call("free", c, p, blk,
                                 MEMPOOL_ERR_DOUBLE_FREE, events)
                  /\ Failed
             ELSE /\ link' = [link EXCEPT ![index] = pool.free_list]
                  /\ pool' = FreePool(pool, blk)
                  /\ bitmap' = BitmapClear(bitmap, index)
                  /\ UNCHANGED threads
                  /\ ret' = Call("free", c, p, blk, MEMPOOL_OK, events)
                  /\ held' = held \ {blk}
                  /\ run' = BrokenRun
                  /\ freed' = freed \cup {blk}
                  /\ stale' = [stale EXCEPT ![c] = @ \cup {blk}]
                  /\ hist' = [hist EXCEPT
                            !.before = IF ret.op = "alloc" /\ ret.block = blk
                                       THEN @ ELSE NoSnapshot,
                            !.last_freed = blk,
                            !.high = Max(@, pool'.stats.used_blocks)]
                  /\ UNCHANGED pool_out

-----------------------------------------------------------------------------
(* mempool_get_stats, mempool_reset, mempool_set_sync *)

\* the events of mempool_get_stats on an initialized pool
GetStatsEvents(p) ==
    CheckedInitialized
    \o HookCalls(mempool_internal_lock(p))
    \o <<Read("stats")>>
    \o HookCalls(mempool_internal_unlock(p))

\* mempool_get_stats with the initialized flag tested before the stats pointer
mempool_get_stats_FlagFirst(c, p, out) ==
    IF p = NULL
    THEN /\ UNCHANGED threads
         /\ ret' = Call("get_stats", c, p, OutArg(out), MEMPOOL_ERR_NULL_PTR,
                        <<>>)
         /\ Failed
    ELSE IF ~pool.initialized
    THEN /\ UNCHANGED threads
         /\ ret' = Call("get_stats", c, p, OutArg(out),
                        MEMPOOL_ERR_NOT_INITIALIZED, CheckedInitialized)
         /\ Failed
    ELSE IF ~out
    THEN /\ UNCHANGED threads
         /\ ret' = Call("get_stats", c, p, OutArg(out), MEMPOOL_ERR_NULL_PTR,
                        CheckedInitialized)
         /\ Failed
    ELSE /\ UNCHANGED threads
         /\ ret' = CallOut("get_stats", c, p, OutArg(out), MEMPOOL_OK,
                           GetStatsEvents(pool), NULL, pool.stats)
         /\ run' = BrokenRun
         /\ hist' = Later(hist)
         /\ UNCHANGED <<pool, bitmap, link, pool_out, held, freed, stale>>

mempool_get_stats(c, p, out) ==
    IF p = NULL \/ ~out
    THEN /\ UNCHANGED threads
         /\ ret' = Call("get_stats", c, p, OutArg(out), MEMPOOL_ERR_NULL_PTR,
                        <<>>)
         /\ Failed
    ELSE IF ~pool.initialized
    THEN /\ UNCHANGED threads
         /\ ret' = Call("get_stats", c, p, OutArg(out),
                        MEMPOOL_ERR_NOT_INITIALIZED, CheckedInitialized)
         /\ Failed
    ELSE /\ UNCHANGED threads
         /\ ret' = CallOut("get_stats", c, p, OutArg(out), MEMPOOL_OK,
                           GetStatsEvents(pool), NULL, pool.stats)
         /\ run' = BrokenRun
         /\ hist' = Later(hist)
         /\ UNCHANGED <<pool, bitmap, link, pool_out, held, freed, stale>>

\* ResetPool that keeps free_count
ResetPool_KeepFreeCount(p) ==
    [p EXCEPT
        !.free_list = BuildHead(p.blocks_start, p.block_size, p.total_blocks),
        !.free_blocks = p.total_blocks,
        !.stats = [total_blocks |-> p.total_blocks, used_blocks |-> 0,
                   free_blocks |-> p.total_blocks, peak_usage |-> 0,
                   alloc_count |-> 0, free_count |-> p.stats.free_count,
                   block_size |-> p.block_size]]

\* ResetPool that leaves stats.used_blocks as it was
ResetPool_KeepUsed(p) ==
    [p EXCEPT
        !.free_list = BuildHead(p.blocks_start, p.block_size, p.total_blocks),
        !.free_blocks = p.total_blocks,
        !.stats = [total_blocks |-> p.total_blocks,
                   used_blocks |-> p.stats.used_blocks,
                   free_blocks |-> p.total_blocks, peak_usage |-> 0,
                   alloc_count |-> 0, free_count |-> 0,
                   block_size |-> p.block_size]]

\* ResetPool that leaves stats.peak_usage as it was
ResetPool_KeepPeak(p) ==
    [p EXCEPT
        !.free_list = BuildHead(p.blocks_start, p.block_size, p.total_blocks),
        !.free_blocks = p.total_blocks,
        !.stats = [total_blocks |-> p.total_blocks, used_blocks |-> 0,
                   free_blocks |-> p.total_blocks,
                   peak_usage |-> p.stats.peak_usage,
                   alloc_count |-> 0, free_count |-> 0,
                   block_size |-> p.block_size]]

\* ResetPool that removes the hook, as mempool_init does
ResetPool_ClearSync(p) ==
    [p EXCEPT
        !.free_list = BuildHead(p.blocks_start, p.block_size, p.total_blocks),
        !.free_blocks = p.total_blocks,
        !.stats = [total_blocks |-> p.total_blocks, used_blocks |-> 0,
                   free_blocks |-> p.total_blocks, peak_usage |-> 0,
                   alloc_count |-> 0, free_count |-> 0,
                   block_size |-> p.block_size],
        !.sync = NoSync,
        !.sync_enabled = FALSE]

\* the control block after mempool_reset
ResetPool(p) ==
    [p EXCEPT
        !.free_list = BuildHead(p.blocks_start, p.block_size, p.total_blocks),
        !.free_blocks = p.total_blocks,
        !.stats = [total_blocks |-> p.total_blocks, used_blocks |-> 0,
                   free_blocks |-> p.total_blocks, peak_usage |-> 0,
                   alloc_count |-> 0, free_count |-> 0,
                   block_size |-> p.block_size]]

\* ResetBitmap without the memset
ResetBitmap_Keep(p, bm) == bm

\* memset(pool->bitmap, 0, pool->bitmap_bytes)
ResetBitmap(p, bm) == [i \in 0 .. p.bitmap_bytes - 1 |-> 0]

\* the events of mempool_reset on an initialized pool
ResetEvents(p) ==
    CheckedInitialized
    \o HookCalls(mempool_internal_lock(p))
    \o <<Read("layout"), Write("bitmap"), Write("link"), Write("free_list"),
         Write("free_blocks"), Write("stats")>>
    \o HookCalls(mempool_internal_unlock(p))

mempool_reset(c, p) ==
    IF p = NULL
    THEN /\ UNCHANGED threads
         /\ ret' = Call("reset", c, p, NULL, MEMPOOL_ERR_NULL_PTR, <<>>)
         /\ Failed
    ELSE IF ~pool.initialized
    THEN /\ UNCHANGED threads
         /\ ret' = Call("reset", c, p, NULL, MEMPOOL_ERR_NOT_INITIALIZED,
                        CheckedInitialized)
         /\ Failed
    ELSE /\ bitmap' = ResetBitmap(pool, bitmap)
         /\ link' = BuildLinks(pool.blocks_start, pool.block_size,
                               pool.total_blocks)
         /\ pool' = ResetPool(pool)
         /\ UNCHANGED threads
         /\ ret' = Call("reset", c, p, NULL, MEMPOOL_OK, ResetEvents(pool))
         /\ held' = {}
         /\ run' = FreshRun
         /\ freed' = {}
         /\ hist' = [Later(hist) EXCEPT
                        !.revoked =
                            IF hist.track
                            THEN @ \cup held
                                   \cup UNION { stale[k] : k \in Clients }
                            ELSE @,
                        !.last_freed = NULL,
                        !.high = 0]
         /\ UNCHANGED <<pool_out, stale>>

\* the (lock, unlock, user_ctx) triples a caller passes to mempool_set_sync
SyncArgs ==
    { <<LockFn, UnlockFn, UserCtx>>, <<LockFn, NULL, UserCtx>>,
      <<NULL, NULL, NULL>> }

mempool_set_sync(c, p, sy) ==
    IF p = NULL
    THEN /\ UNCHANGED threads
         /\ ret' = Call("set_sync", c, p, NULL, MEMPOOL_ERR_NULL_PTR, <<>>)
         /\ Failed
    ELSE IF ~pool.initialized
    THEN /\ UNCHANGED threads
         /\ ret' = Call("set_sync", c, p, NULL,
                        MEMPOOL_ERR_NOT_INITIALIZED, CheckedInitialized)
         /\ Failed
    ELSE /\ pool' = [pool EXCEPT
                        !.sync = [lock |-> sy[1], unlock |-> sy[2],
                                  user_ctx |-> sy[3]],
                        !.sync_enabled = (sy[1] # NULL /\ sy[2] # NULL)]
         /\ UNCHANGED threads
         /\ ret' = Call("set_sync", c, p, NULL, MEMPOOL_OK,
                        CheckedInitialized \o <<Write("sync")>>)
         /\ run' = BrokenRun
         /\ hist' = [Later(hist) EXCEPT !.installed = sy]
         /\ UNCHANGED <<bitmap, link, pool_out, held, freed, stale>>

-----------------------------------------------------------------------------
(* The owner of a block writes its payload *)

\* the values a client stores in the first word of a block it holds
Payloads == {pool.blocks_start, ExternalBuf}

client_write(c, blk, word) ==
    /\ pool.initialized
    /\ blk \in held
    /\ link' = [link EXCEPT ![mempool_block_index(pool, blk)] = word]
    /\ UNCHANGED threads
    /\ ret' = Call("write", c, NULL, blk, MEMPOOL_OK, <<>>)
    /\ hist' = Later(hist)
    /\ UNCHANGED <<pool, bitmap, pool_out, held, run, freed, stale>>

-----------------------------------------------------------------------------
(* The specification *)

\* the pointers a caller passes to mempool_free
FreePtrs ==
    {NULL, ExternalBuf}
    \cup (IF pool.initialized
          THEN { BlockAddr(pool, i) : i \in 0 .. pool.total_blocks - 1 }
               \cup { pool.pool_buffer_start, pool.blocks_start - 1,
                      pool.blocks_start + 1,
                      BlockAddr(pool, pool.total_blocks) }
          ELSE {})

\* the pool arguments a caller passes: its handle, or no pool at all
PoolArgs == {NULL, pool_out}

\* what a call gives back: its return value, *block and *stats
Outcome(result, blk, st) == [result |-> result, block |-> blk, stats |-> st]

NoOutcome == Outcome(MEMPOOL_OK, NULL, ZeroStats)

\* the second pool before its init: state2 and buf2 hold nothing, pool2 is
\* nullptr.  id is the number of the pool (1 or 2) that is set aside
NoOther ==
    [id |-> 2, pool |-> ZeroPool, bitmap |-> <<>>, link |-> <<>>,
     pool_out |-> NULL, held |-> {}]

\* a worker thread that has not been started:
\*   pc      where the thread is: "unborn", "idle" (between calls), "lock",
\*           a line of the critical section it is in, "unlock", "return",
\*           "done"
\*   op      the function it is in, arg the block it passed to mempool_free
\*   node    the local `node` of mempool_alloc, which ends up in *block
\*   byte    the local `byte` of mempool_free
\*   result  the local `result`
\*   out     the caller's stats structure
\*   blocks  the blocks the thread was given and has not passed to free
\*   calls   the calls it has made
\*   expect  history: what the call gives back when run on `lin`
NoThread ==
    [pc |-> "unborn", op |-> "none", arg |-> NULL, node |-> NULL, byte |-> 0,
     result |-> MEMPOOL_OK, out |-> ZeroStats, blocks |-> {}, calls |-> 0,
     expect |-> NoOutcome]

Init ==
    /\ pool = ZeroPool
    /\ bitmap = <<>>
    /\ link = <<>>
    /\ pool_out = NULL
    /\ ret = Call("none", 1, NULL, NULL, MEMPOOL_OK, <<>>)
    /\ held = {}
    /\ run = BrokenRun
    /\ freed = {}
    /\ stale = NoStale
    /\ hist = NoHist
    /\ mutex = 0
    /\ thread = [t \in Clients |-> NoThread]
    /\ lin = NoSnapshot
    /\ other = NoOther

Next ==
    \E c \in {1} :
        \/ \E a \in InitArgs : mempool_init(c, a)
        \/ \E p \in PoolArgs, out \in BOOLEAN : mempool_alloc(c, p, out)
        \/ \E p \in PoolArgs, blk \in FreePtrs : mempool_free(c, p, blk)
        \/ \E p \in PoolArgs, out \in BOOLEAN : mempool_get_stats(c, p, out)
        \/ \E p \in PoolArgs : mempool_reset(c, p)
        \/ \E p \in PoolArgs, sy \in SyncArgs : mempool_set_sync(c, p, sy)
        \/ \E blk \in held, word \in Payloads : client_write(c, blk, word)

Spec == Init /\ [][Next]_vars

-----------------------------------------------------------------------------
(* Observations the properties are stated with *)

\* the blocks of the pool
Blocks == 0 .. pool.total_blocks - 1

\* ptr is blocks_start + k * block_size for a block k of control block p
IsBlockStart(p, ptr) ==
    \E k \in 0 .. p.total_blocks - 1 : ptr = p.blocks_start + k * p.block_size

\* the index of the block that starts at ptr
IndexOf(p, ptr) ==
    CHOOSE k \in 0 .. p.total_blocks - 1 : ptr = p.blocks_start + k * p.block_size

\* bit i of the bitmap: bit i % 8 of byte i / 8
BitOf(bm, i) == (bm[i \div 8] \div Shl1(i % 8)) % 2

\* the chain reached from ptr through the link words, at most fuel nodes:
\* ended is TRUE when the chain stops at NULL
RECURSIVE Chain(_, _)
Chain(ptr, fuel) ==
    IF ptr = NULL THEN [nodes |-> <<>>, ended |-> TRUE]
    ELSE IF fuel = 0 THEN [nodes |-> <<>>, ended |-> FALSE]
    ELSE IF ~IsBlockStart(pool, ptr) THEN [nodes |-> <<ptr>>, ended |-> FALSE]
    ELSE LET rest == Chain(link[IndexOf(pool, ptr)], fuel - 1)
         IN  [nodes |-> <<ptr>> \o rest.nodes, ended |-> rest.ended]

FreeList == Chain(pool.free_list, pool.total_blocks + 1)

Range(seq) == { seq[k] : k \in 1 .. Len(seq) }

NoDuplicates(seq) == Cardinality(Range(seq)) = Len(seq)

\* the free list of control block p over link words lk, at most fuel nodes
RECURSIVE ChainOf(_, _, _, _)
ChainOf(p, lk, ptr, fuel) ==
    IF ptr = NULL \/ fuel = 0 THEN <<>>
    ELSE IF ~IsBlockStart(p, ptr) THEN <<ptr>>
    ELSE <<ptr>> \o ChainOf(p, lk, lk[IndexOf(p, ptr)], fuel - 1)

\* the last call reached the pool: its arguments were non-null and the pool
\* was initialized
OnPool(r) ==
    /\ r.op \in {"alloc", "free", "get_stats", "reset", "set_sync"}
    /\ r.result \notin {MEMPOOL_ERR_NULL_PTR, MEMPOOL_ERR_NOT_INITIALIZED}

-----------------------------------------------------------------------------
(* C1: a successful alloc never returns a block that is currently         *)
(* allocated, i.e. one handed out earlier and neither freed successfully  *)
(* nor revoked by reset/init since.                                       *)
C1_AllocReturnsUnheldBlock ==
    [][(ret'.op = "alloc" /\ ret'.result = MEMPOOL_OK)
        => (ret'.block \notin held /\ ret'.block # NULL)]_vars

\* an alloc succeeds while two other blocks are out, after a block came back
C1_Witness ==
    /\ ret.op = "alloc" /\ ret.result = MEMPOOL_OK
    /\ Cardinality(held) >= 3
    /\ pool.stats.free_count >= 1

(* C2: in every state of an initialized pool, bit i of the bitmap is set  *)
(* if and only if block i is not on the free list.                        *)
C2_BitIffNotOnFreeList ==
    pool.initialized =>
        \A i \in Blocks :
            (BitOf(bitmap, i) = 1) <=> (BlockAddr(pool, i) \notin Range(FreeList.nodes))

\* some blocks allocated, some free, after at least one free
C2_Witness ==
    /\ pool.initialized
    /\ pool.stats.free_count >= 1
    /\ \E i, j \in Blocks : BitOf(bitmap, i) = 1 /\ BitOf(bitmap, j) = 0

(* C3: in every state of an initialized pool the free list is a finite,   *)
(* NULL-terminated chain without duplicates, each entry is the start of a *)
(* block in the blocks range, and its length equals free_blocks.          *)
C3_FreeListWellFormed ==
    pool.initialized =>
        /\ FreeList.ended
        /\ NoDuplicates(FreeList.nodes)
        /\ \A ptr \in Range(FreeList.nodes) :
              \E k \in Blocks : ptr = pool.blocks_start + k * pool.block_size
        /\ Len(FreeList.nodes) = pool.free_blocks

\* a free list of two or more blocks that is not in the order init built
C3_Witness ==
    /\ pool.initialized
    /\ Len(FreeList.nodes) >= 2
    /\ FreeList.nodes[1] < FreeList.nodes[2]
    /\ held # {}

(* C4: every snapshot returned by get_stats satisfies                     *)
(* used_blocks + free_blocks = total_blocks.                              *)
C4_UsedPlusFreeIsTotal ==
    (ret.op = "get_stats" /\ ret.result = MEMPOOL_OK) =>
        ret.stats.used_blocks + ret.stats.free_blocks = ret.stats.total_blocks

\* a snapshot taken with blocks out, after frees and a failed free
C4_Witness ==
    /\ ret.op = "get_stats" /\ ret.result = MEMPOOL_OK
    /\ ret.stats.used_blocks >= 1 /\ ret.stats.free_blocks >= 1
    /\ ret.stats.free_count >= 1

(* C5: every snapshot returned by get_stats satisfies                     *)
(* alloc_count - free_count = used_blocks.                                *)
C5_AllocMinusFreeIsUsed ==
    (ret.op = "get_stats" /\ ret.result = MEMPOOL_OK) =>
        ret.stats.alloc_count - ret.stats.free_count = ret.stats.used_blocks

\* a snapshot with both counters advanced and a block still out
C5_Witness ==
    /\ ret.op = "get_stats" /\ ret.result = MEMPOOL_OK
    /\ ret.stats.alloc_count >= 3 /\ ret.stats.free_count >= 2
    /\ ret.stats.used_blocks >= 1

(* C6: for a block B handed out by alloc, free(B) returns OK and raises   *)
(* free_count by exactly 1; a further free(B) with no alloc or reset in   *)
(* between returns DOUBLE_FREE and changes nothing (free list, bitmap,    *)
(* free_blocks, free_count).                                              *)
C6_FreeTwiceOkThenDoubleFree ==
    [][(ret'.op = "free" /\ ret'.pool # NULL /\ pool.initialized) =>
        /\ (ret'.arg \in held) =>
              /\ ret'.result = MEMPOOL_OK
              /\ pool'.stats.free_count = pool.stats.free_count + 1
        /\ (ret'.arg \in freed) =>
              /\ ret'.result = MEMPOOL_ERR_DOUBLE_FREE
              /\ UNCHANGED <<pool, bitmap, link>>]_vars

\* the second of two frees of one block, other blocks still out
C6_Witness ==
    /\ ret.op = "free" /\ ret.result = MEMPOOL_ERR_DOUBLE_FREE
    /\ ret.arg \in freed
    /\ pool.stats.free_count >= 1
    /\ held # {}

(* C7: free of a non-null pointer outside the blocks range (one past the  *)
(* end, the bitmap or padding, an outside buffer) or inside it but not on *)
(* a block boundary returns INVALID_BLOCK, calls no hook and changes no   *)
(* pool state.                                                            *)
C7_InvalidPointerRejected ==
    [][(/\ ret'.op = "free" /\ ret'.pool # NULL /\ pool.initialized
        /\ ret'.arg # NULL /\ ~IsBlockStart(pool, ret'.arg)) =>
        /\ ret'.result = MEMPOOL_ERR_INVALID_BLOCK
        /\ ret'.hooks = <<>>
        /\ UNCHANGED <<pool, bitmap, link>>]_vars

\* the pointer one past the last block is rejected, hook installed, blocks out
C7_Witness ==
    /\ ret.op = "free" /\ ret.result = MEMPOOL_ERR_INVALID_BLOCK
    /\ ret.arg = pool.blocks_start + pool.total_blocks * pool.block_size
    /\ pool.sync_enabled
    /\ held # {}

(* C8: free of a pointer in the blocks range and on a block boundary      *)
(* returns OK if the block's bit is set and DOUBLE_FREE, changing         *)
(* nothing, if it is clear; a block never handed out (any block right     *)
(* after init) gives DOUBLE_FREE.                                         *)
C8_FreeDecidedByBit ==
    [][(/\ ret'.op = "free" /\ ret'.pool # NULL /\ pool.initialized
        /\ IsBlockStart(pool, ret'.arg)) =>
        /\ IF BitOf(bitmap, IndexOf(pool, ret'.arg)) = 1
           THEN ret'.result = MEMPOOL_OK
           ELSE /\ ret'.result = MEMPOOL_ERR_DOUBLE_FREE
                /\ UNCHANGED <<pool, bitmap, link>>
        /\ (ret.op = "init" /\ ret.result = MEMPOOL_OK)
              => ret'.result = MEMPOOL_ERR_DOUBLE_FREE]_vars

\* a block that was never handed out is refused while another block is out
C8_Witness ==
    /\ ret.op = "free" /\ ret.result = MEMPOOL_ERR_DOUBLE_FREE
    /\ pool.stats.alloc_count = 1 /\ pool.stats.free_count = 0
    /\ ret.arg \notin held
    /\ held # {}

(* C9: whenever a client frees a pointer it has already freed             *)
(* successfully and has not received again from alloc, free returns       *)
(* DOUBLE_FREE and leaves the pool unchanged, whatever the other clients  *)
(* did in between.                                                        *)
C9_RepeatedFreeDetected ==
    [][(/\ ret'.op = "free" /\ ret'.pool # NULL /\ pool.initialized
        /\ ret'.arg \in stale[ret'.client]) =>
        /\ ret'.result = MEMPOOL_ERR_DOUBLE_FREE
        /\ UNCHANGED <<pool, bitmap, link>>]_vars

(* C10: from a freshly initialized or reset pool of N blocks, the first N *)
(* consecutive allocs return OK with pairwise distinct blocks and every   *)
(* further one returns OUT_OF_MEMORY, with free_blocks = 0,               *)
(* used_blocks = N and peak_usage = N.                                    *)
C10_ExactlyNAllocs ==
    [][(run.fresh /\ ret'.op = "alloc" /\ OnPool(ret')) =>
        IF Len(run.blocks) < pool.total_blocks
        THEN /\ ret'.result = MEMPOOL_OK
             /\ ret'.block \notin Range(run.blocks)
        ELSE /\ ret'.result = MEMPOOL_ERR_OUT_OF_MEMORY
             /\ pool'.stats.free_blocks = 0
             /\ pool'.stats.used_blocks = pool.total_blocks
             /\ pool'.stats.peak_usage = pool.total_blocks]_vars

\* the alloc after three allocs out of a fresh pool of three blocks
C10_Witness ==
    /\ ret.op = "alloc" /\ ret.result = MEMPOOL_ERR_OUT_OF_MEMORY
    /\ run.fresh /\ Len(run.blocks) = 3
    /\ pool.total_blocks = 3

(* C11: an alloc that returns OUT_OF_MEMORY leaves the free-list head, the *)
(* link words, the bitmap, free_blocks and every stats field unchanged    *)
(* and does not write the caller's output pointer; every block allocated  *)
(* before it still has its bit set, and a free of such a block right      *)
(* after it returns OK.                                                   *)
C11_OutOfMemoryChangesNothing ==
    [][/\ (ret'.op = "alloc" /\ ret'.result = MEMPOOL_ERR_OUT_OF_MEMORY) =>
            /\ UNCHANGED <<pool, bitmap, link>>
            /\ ret'.block = NULL
            /\ \A b \in held : BitOf(bitmap', IndexOf(pool', b)) = 1
       /\ (/\ ret.op = "alloc" /\ ret.result = MEMPOOL_ERR_OUT_OF_MEMORY
           /\ ret'.op = "free" /\ ret'.pool # NULL /\ ret'.arg \in held) =>
            /\ ret'.result = MEMPOOL_OK
            /\ pool'.stats.used_blocks = pool.stats.used_blocks - 1]_vars

\* an alloc finds the pool of three exhausted, after blocks went and came
\* back, with the hook installed
C11_Witness ==
    /\ ret.op = "alloc" /\ ret.result = MEMPOOL_ERR_OUT_OF_MEMORY
    /\ Cardinality(held) = 3
    /\ pool.stats.free_count >= 1
    /\ ret.hooks # <<>>

(* C12: after reset returns OK on an initialized pool, in whatever state, *)
(* get_stats reports used_blocks = 0, free_blocks = total_blocks,         *)
(* alloc_count = 0, free_count = 0 and peak_usage = 0, with total_blocks  *)
(* and block_size as they were before the reset.                          *)
C12_ResetZeroesStats ==
    [][/\ (ret'.op = "reset" /\ ret'.result = MEMPOOL_OK) =>
            pool'.stats =
                [total_blocks |-> pool.stats.total_blocks,
                 used_blocks |-> 0,
                 free_blocks |-> pool.stats.total_blocks,
                 peak_usage |-> 0, alloc_count |-> 0, free_count |-> 0,
                 block_size |-> pool.stats.block_size]
       /\ (/\ ret.op = "reset" /\ ret.result = MEMPOOL_OK
           /\ ret'.op = "get_stats" /\ ret'.result = MEMPOOL_OK) =>
            /\ ret'.stats.used_blocks = 0
            /\ ret'.stats.free_blocks = ret'.stats.total_blocks
            /\ ret'.stats.alloc_count = 0
            /\ ret'.stats.free_count = 0
            /\ ret'.stats.peak_usage = 0
            /\ ret'.stats.total_blocks = pool.stats.total_blocks
            /\ ret'.stats.block_size = pool.stats.block_size]_vars

\* a snapshot with all counters at zero although blocks were allocated and
\* freed since init: a reset came after them
C12_Witness ==
    /\ ret.op = "get_stats" /\ ret.result = MEMPOOL_OK
    /\ ret.stats.alloc_count = 0 /\ ret.stats.peak_usage = 0
    /\ ret.stats.total_blocks = 3
    /\ Cardinality(stale[1]) >= 2

(* C15: reset restores the pool to its initial state: the control block   *)
(* (the installed hook aside, which no result depends on), the bitmap and *)
(* the link words after a reset are those the last init with the same     *)
(* parameters produced, so every later sequence of alloc, free and        *)
(* get_stats gives the same codes, blocks and snapshots as on the fresh   *)
(* pool.                                                                  *)
C15_ResetRestoresInitialState ==
    [][(ret'.op = "reset" /\ ret'.result = MEMPOOL_OK) =>
        /\ hist.initial.taken
        /\ [pool' EXCEPT !.sync = NoSync, !.sync_enabled = FALSE]
               = hist.initial.pool
        /\ bitmap' = hist.initial.bitmap
        /\ link' = hist.initial.link]_vars

\* a reset of a pool with a hook installed, on which blocks had been
\* allocated and freed
C15_Witness ==
    /\ ret.op = "reset" /\ ret.result = MEMPOOL_OK
    /\ pool.sync_enabled
    /\ Cardinality(stale[1]) >= 2
    /\ pool.total_blocks = 3

(* C16: the free list is LIFO: after free(B) returned OK, the next alloc   *)
(* on the pool, with no other alloc, free or reset (nor a new init of the *)
(* pool) in between, returns OK with exactly the block B.                 *)
C16_AllocReturnsLastFreed ==
    [][(ret'.op = "alloc" /\ OnPool(ret') /\ hist.last_freed # NULL) =>
        /\ ret'.result = MEMPOOL_OK
        /\ ret'.block = hist.last_freed]_vars

\* an alloc returns block 0 while other blocks are still free: block 0 had
\* been freed onto the head of the list
C16_Witness ==
    /\ ret.op = "alloc" /\ ret.result = MEMPOOL_OK
    /\ ret.block = pool.blocks_start
    /\ pool.free_blocks >= 1
    /\ hist.before.taken
    /\ hist.before.pool.stats.free_count >= 1

(* C17: after a successful init, and likewise after a reset, of a pool of *)
(* N blocks the first N allocs return the blocks in strictly descending   *)
(* index order: N-1, N-2, ..., 0.                                         *)
C17_FirstAllocsDescend ==
    [][(/\ run.fresh /\ ret'.op = "alloc" /\ OnPool(ret')
        /\ Len(run.blocks) < pool.total_blocks) =>
        /\ ret'.result = MEMPOOL_OK
        /\ ret'.block = pool.blocks_start
              + (pool.total_blocks - 1 - Len(run.blocks)) * pool.block_size]_vars

\* the second alloc in a row after a reset of a pool of three blocks, all
\* of which had been allocated and the lowest freed before the reset
C17_Witness ==
    /\ ret.op = "alloc" /\ ret.result = MEMPOOL_OK
    /\ run.fresh /\ Len(run.blocks) = 2
    /\ pool.total_blocks = 3
    /\ pool.blocks_start \in stale[1]

(* C18: for every block B a successful alloc returns, the free(B) that    *)
(* follows it immediately returns OK and restores used_blocks,            *)
(* free_blocks, the whole bitmap and the free list (head and order) to    *)
(* their values before the alloc; alloc_count and free_count are each one *)
(* higher, peak_usage may be higher, and nothing else differs.            *)
C18_FreeUndoesAlloc ==
    [][(/\ ret.op = "alloc" /\ ret.result = MEMPOOL_OK
        /\ ret'.op = "free" /\ ret'.pool # NULL /\ ret'.arg = ret.block) =>
        LET b == hist.before
        IN  /\ b.taken
            /\ ret'.result = MEMPOOL_OK
            /\ pool'.stats.used_blocks = b.pool.stats.used_blocks
            /\ pool'.stats.free_blocks = b.pool.stats.free_blocks
            /\ pool'.free_blocks = b.pool.free_blocks
            /\ bitmap' = b.bitmap
            /\ pool'.free_list = b.pool.free_list
            /\ ChainOf(pool', link', pool'.free_list, pool'.total_blocks + 1)
                  = ChainOf(b.pool, b.link, b.pool.free_list,
                            b.pool.total_blocks + 1)
            /\ pool'.stats.alloc_count = b.pool.stats.alloc_count + 1
            /\ pool'.stats.free_count = b.pool.stats.free_count + 1
            /\ pool'.stats.peak_usage >= b.pool.stats.peak_usage
            /\ [pool' EXCEPT !.stats.alloc_count = b.pool.stats.alloc_count,
                             !.stats.free_count = b.pool.stats.free_count,
                             !.stats.peak_usage = b.pool.stats.peak_usage]
                  = b.pool]_vars

\* a block is freed right after the alloc that returned it, which had
\* raised the peak to three; two other blocks stay out
C18_Witness ==
    /\ ret.op = "free" /\ ret.result = MEMPOOL_OK
    /\ hist.before.taken
    /\ Cardinality(held) = 2
    /\ pool.stats.peak_usage = 3
    /\ hist.before.pool.stats.peak_usage = 2

(* C19: in every state of an initialized pool peak_usage equals the       *)
(* largest value used_blocks has taken since the last successful init or  *)
(* reset, hence used_blocks <= peak_usage <= total_blocks; a free call,   *)
(* successful or not, never changes peak_usage.                           *)
C19_PeakIsHighWaterMark ==
    [][/\ pool'.initialized =>
            /\ pool'.stats.peak_usage = hist'.high
            /\ pool'.stats.used_blocks <= pool'.stats.peak_usage
            /\ pool'.stats.peak_usage <= pool'.stats.total_blocks
       /\ (ret'.op = "free") =>
            pool'.stats.peak_usage = pool.stats.peak_usage]_vars

\* a free leaves one of three blocks in use and the peak at three
C19_Witness ==
    /\ ret.op = "free" /\ ret.result = MEMPOOL_OK
    /\ pool.stats.used_blocks = 1
    /\ pool.stats.peak_usage = 3
    /\ hist.high = 3

-----------------------------------------------------------------------------
(* The pool with the pointers each reset revokes on record *)

InitRevoked ==
    /\ pool = ZeroPool
    /\ bitmap = <<>>
    /\ link = <<>>
    /\ pool_out = NULL
    /\ ret = Call("none", 1, NULL, NULL, MEMPOOL_OK, <<>>)
    /\ held = {}
    /\ run = BrokenRun
    /\ freed = {}
    /\ stale = NoStale
    /\ hist = [NoHist EXCEPT !.track = TRUE]
    /\ mutex = 0
    /\ thread = [t \in Clients |-> NoThread]
    /\ lin = NoSnapshot
    /\ other = NoOther

NextRevoked ==
    \E c \in {1} :
        \/ \E l \in Layouts :
              mempool_init(c, InitArg(StateBuf, MEMPOOL_STATE_SIZE, PoolBuf,
                                      l[1], l[2], l[3], TRUE))
        \/ mempool_alloc(c, pool_out, TRUE)
        \/ \E blk \in FreePtrs : mempool_free(c, pool_out, blk)
        \/ mempool_get_stats(c, pool_out, TRUE)
        \/ mempool_reset(c, pool_out)
        \/ \E blk \in held, word \in Payloads : client_write(c, blk, word)

SpecRevoked == InitRevoked /\ [][NextRevoked]_vars

\* the stats of a pool of control block p on which nothing is allocated
IdleStats(p) ==
    [total_blocks |-> p.total_blocks, used_blocks |-> 0,
     free_blocks |-> p.total_blocks, peak_usage |-> 0, alloc_count |-> 0,
     free_count |-> 0, block_size |-> p.block_size]

(* C13: when blocks were allocated and reset was then called, a free of   *)
(* any of their pointers before the next alloc returns DOUBLE_FREE and    *)
(* leaves the pool unchanged, with the stats at used = 0, free = total,   *)
(* alloc_count = 0, free_count = 0, peak = 0.                             *)
C13_FreeAfterResetIsDoubleFree ==
    [][(/\ ret'.op = "free" /\ ret'.pool # NULL /\ pool.initialized
        /\ ret'.arg \in hist.revoked
        /\ held = {} /\ freed = {}) =>
        /\ ret'.result = MEMPOOL_ERR_DOUBLE_FREE
        /\ UNCHANGED <<pool, bitmap, link>>
        /\ pool'.stats = IdleStats(pool)]_vars

\* after a reset that revoked three pointers, the second free of one of
\* them in a row is refused
C13_Witness ==
    /\ ret.op = "free" /\ ret.result = MEMPOOL_ERR_DOUBLE_FREE
    /\ ret.arg \in hist.revoked
    /\ Cardinality(hist.revoked) = 3
    /\ held = {} /\ freed = {}
    /\ pool.stats = IdleStats(pool)

-----------------------------------------------------------------------------
(* The whole public interface, with the functions that only answer *)

\* mempool_contains without the test against the end of the blocks
mempool_contains_NoEnd(c, p, ptr) ==
    LET blocks_start_addr == pool.blocks_start
    IN  /\ UNCHANGED threads
        /\ ret' = IF p = NULL \/ ptr = NULL
                  THEN Call("contains", c, p, ptr, FALSE, <<>>)
                  ELSE IF ~pool.initialized
                  THEN Call("contains", c, p, ptr, FALSE, CheckedInitialized)
                  ELSE Call("contains", c, p, ptr, ptr >= blocks_start_addr,
                            CheckedBlock)
        /\ run' = BrokenRun
        /\ hist' = Later(hist)
        /\ UNCHANGED <<pool, bitmap, link, pool_out, held, freed, stale>>

\* mempool_contains: its return value is the result of the call
mempool_contains(c, p, ptr) ==
    LET blocks_start_addr == pool.blocks_start
        blocks_end_addr   == blocks_start_addr
                                + (pool.total_blocks * pool.block_size)
    IN  /\ UNCHANGED threads
        /\ ret' = IF p = NULL \/ ptr = NULL
                  THEN Call("contains", c, p, ptr, FALSE, <<>>)
                  ELSE IF ~pool.initialized
                  THEN Call("contains", c, p, ptr, FALSE, CheckedInitialized)
                  ELSE Call("contains", c, p, ptr,
                            (ptr >= blocks_start_addr) /\ (ptr < blocks_end_addr),
                            CheckedBlock)
        /\ run' = BrokenRun
        /\ hist' = Later(hist)
        /\ UNCHANGED <<pool, bitmap, link, pool_out, held, freed, stale>>

\* mempool_state_size: sizeof(struct mempool)
mempool_state_size(c) ==
    /\ UNCHANGED threads
    /\ ret' = Call("state_size", c, NULL, NULL, SizeofMempool, <<>>)
    /\ run' = BrokenRun
    /\ hist' = Later(hist)
    /\ UNCHANGED <<pool, bitmap, link, pool_out, held, freed, stale>>

\* the values passed to mempool_strerror: every error code, and one that
\* is none
ErrorCodes == MEMPOOL_OK .. MEMPOOL_ERR_NOT_INITIALIZED + 1

\* the switch of mempool_strerror
StrError(error) ==
    CASE error = MEMPOOL_OK                  -> "Success"
      [] error = MEMPOOL_ERR_NULL_PTR        -> "Null pointer"
      [] error = MEMPOOL_ERR_INVALID_SIZE    -> "Invalid size"
      [] error = MEMPOOL_ERR_OUT_OF_MEMORY   -> "Out of memory"
      [] error = MEMPOOL_ERR_INVALID_BLOCK   -> "Invalid block"
      [] error = MEMPOOL_ERR_ALIGNMENT       -> "Alignment error"
      [] error = MEMPOOL_ERR_DOUBLE_FREE     -> "Double free detected"
      [] error = MEMPOOL_ERR_NOT_INITIALIZED -> "Pool not initialized"
      [] OTHER                               -> "Unknown error"

mempool_strerror(c, error) ==
    /\ UNCHANGED threads
    /\ ret' = Call("strerror", c, NULL, error, StrError(error), <<>>)
    /\ run' = BrokenRun
    /\ hist' = Later(hist)
    /\ UNCHANGED <<pool, bitmap, link, pool_out, held, freed, stale>>

NextApi ==
    \E c \in {1} :
        \/ \E a \in InitArgs : mempool_init(c, a)
        \/ \E p \in PoolArgs, out \in BOOLEAN : mempool_alloc(c, p, out)
        \/ \E p \in PoolArgs, blk \in FreePtrs : mempool_free(c, p, blk)
        \/ \E p \in PoolArgs, out \in BOOLEAN : mempool_get_stats(c, p, out)
        \/ \E p \in PoolArgs : mempool_reset(c, p)
        \/ \E p \in PoolArgs, sy \in SyncArgs : mempool_set_sync(c, p, sy)
        \/ \E p \in PoolArgs, ptr \in FreePtrs : mempool_contains(c, p, ptr)
        \/ mempool_state_size(c)
        \/ \E error \in ErrorCodes : mempool_strerror(c, error)

SpecApi == Init /\ [][NextApi]_vars

\* the parts of the pool's memory the hook protects
Protected == {"free_list", "link", "free_blocks", "stats", "bitmap"}

\* the events t hold one call of lock(ctx), later one call of unlock(ctx),
\* no other hook call, and every access to a protected part between them
Bracketed(t, sync) ==
    \E i, j \in 1 .. Len(t) :
        /\ i < j
        /\ t[i] = HookCall([fn |-> sync.lock, ctx |-> sync.user_ctx])
        /\ t[j] = HookCall([fn |-> sync.unlock, ctx |-> sync.user_ctx])
        /\ \A k \in 1 .. Len(t) :
              /\ (t[k].ev = "call") => k \in {i, j}
              /\ (t[k].field \in Protected) => (i < k /\ k < j)

\* the events t hold no hook call
NoHookCall(t) == \A k \in 1 .. Len(t) : t[k].ev # "call"

-----------------------------------------------------------------------------
(* Several clients share one pool handle *)

SharedInitArgs == { InitArg(StateBuf, MEMPOOL_STATE_SIZE, PoolBuf, 32, 8, 8, TRUE) }

NextClients ==
    \E c \in Clients :
        \/ \E a \in SharedInitArgs : mempool_init(c, a)
        \/ mempool_alloc(c, pool_out, TRUE)
        \/ \E blk \in FreePtrs : mempool_free(c, pool_out, blk)
        \/ mempool_reset(c, pool_out)

SpecClients == Init /\ [][NextClients]_vars

-----------------------------------------------------------------------------
(* Worker threads share one pool handle behind a mutex hook.  A call is a  *)
(* sequence of steps: the checks made before the lock, the lock, the       *)
(* statements of the critical section one at a time, the unlock and the    *)
(* return.                                                                 *)

\* the number of calls each worker thread makes at most
MaxCalls == 3

\* the pools the threaded callers set up: one block, and two blocks
ThreadLayouts == { <<16, 8, 8>>, <<40, 12, 8>> }

\* what the steps of the worker threads leave alone
Untouched == UNCHANGED <<pool_out, ret, held, run, freed, stale, hist, other>>

\* lock_callback that does not wait for the mutex
lock_callback_NoWait(t) == mutex' = t

\* lock_callback: std::mutex::lock, which waits until the mutex is free
lock_callback(t) == mutex = 0 /\ mutex' = t

\* unlock_callback that leaves the mutex locked
unlock_callback_Keep(t) == mutex' = mutex

\* unlock_callback: std::mutex::unlock
unlock_callback(t) == mutex' = 0

\* PreLock with the end of the block region taken from free_blocks, a field
\* the critical sections write
PreLock_ReadsFreeBlocks(h, p, op, arg) ==
    IF h = NULL \/ (op = "free" /\ arg = NULL) THEN MEMPOOL_ERR_NULL_PTR
    ELSE IF ~p.initialized THEN MEMPOOL_ERR_NOT_INITIALIZED
    ELSE IF op = "free"
        THEN FreePreCheck([p EXCEPT !.total_blocks = p.free_blocks], arg)
    ELSE MEMPOOL_OK

\* the checks a public function makes before it takes the lock, on control
\* block p with handle h
PreLock(h, p, op, arg) ==
    IF h = NULL \/ (op = "free" /\ arg = NULL) THEN MEMPOOL_ERR_NULL_PTR
    ELSE IF ~p.initialized THEN MEMPOOL_ERR_NOT_INITIALIZED
    ELSE IF op = "free" THEN FreePreCheck(p, arg)
    ELSE MEMPOOL_OK

\* the call op(arg), past its checks, run as a whole on the pool s: the pool
\* after it and what it gives back
SeqCall(s, op, arg) ==
    CASE op = "alloc" ->
            IF s.pool.free_list = NULL \/ s.pool.free_blocks = 0
            THEN [after |-> s,
                  outcome |-> Outcome(MEMPOOL_ERR_OUT_OF_MEMORY, NULL, ZeroStats)]
            ELSE [after |-> Snapshot(AllocPool(s.pool, s.link),
                                     BitmapSet(s.pool, s.bitmap,
                                         mempool_block_index(s.pool, s.pool.free_list)),
                                     s.link),
                  outcome |-> Outcome(MEMPOOL_OK, s.pool.free_list, ZeroStats)]
      [] op = "free" ->
            LET index == mempool_block_index(s.pool, arg)
            IN  IF index \div 8 >= s.pool.bitmap_bytes
                THEN [after |-> s,
                      outcome |-> Outcome(MEMPOOL_ERR_INVALID_BLOCK, NULL, ZeroStats)]
                ELSE IF ~BitmapTest(s.bitmap, index)
                THEN [after |-> s,
                      outcome |-> Outcome(MEMPOOL_ERR_DOUBLE_FREE, NULL, ZeroStats)]
                ELSE [after |-> Snapshot(FreePool(s.pool, arg),
                                         BitmapClear(s.bitmap, index),
                                         [s.link EXCEPT ![index] = s.pool.free_list]),
                      outcome |-> NoOutcome]
      [] op = "reset" ->
            [after |-> Snapshot(ResetPool(s.pool), ResetBitmap(s.pool, s.bitmap),
                                BuildLinks(s.pool.blocks_start, s.pool.block_size,
                                           s.pool.total_blocks)),
             outcome |-> NoOutcome]
      [] op = "get_stats" ->
            [after |-> s, outcome |-> Outcome(MEMPOOL_OK, NULL, s.pool.stats)]

\* FirstLine with mempool_free entered past its test of the bitmap
FirstLine_SkipTest(op) ==
    CASE op = "alloc" -> "alloc_219"
      [] op = "free" -> "free_299"
      [] op = "reset" -> "reset_349"
      [] op = "get_stats" -> "get_stats_330"

\* the first statement of the critical section of each function
FirstLine(op) ==
    CASE op = "alloc" -> "alloc_219"
      [] op = "free" -> "free_285"
      [] op = "reset" -> "reset_349"
      [] op = "get_stats" -> "get_stats_330"

\* the main thread sets the pool up before it starts the workers
main_init(a) ==
    /\ \A t \in Clients : thread[t].pc = "unborn"
    /\ ~pool.initialized
    /\ mempool_init(0, a)

main_set_sync ==
    /\ \A t \in Clients : thread[t].pc = "unborn"
    /\ pool.initialized /\ ~pool.sync_enabled
    /\ mempool_set_sync(0, pool_out, <<LockFn, UnlockFn, UserCtx>>)

\* threads.emplace_back(worker) for every worker
spawn ==
    /\ \A t \in Clients : thread[t].pc = "unborn"
    /\ pool.initialized /\ pool.sync_enabled
    /\ thread' = [t \in Clients |-> [NoThread EXCEPT !.pc = "idle"]]
    /\ lin' = Snapshot(pool, bitmap, link)
    /\ UNCHANGED <<pool, bitmap, link, mutex>>
    /\ Untouched

\* a worker calls op(pool, arg): the checks before the lock
thread_call(t, op, arg) ==
    LET me  == thread[t]
        chk == PreLock(pool_out, pool, op, arg)
    IN  /\ me.pc = "idle"
        /\ me.calls < MaxCalls
        /\ thread' = [thread EXCEPT ![t] =
              [me EXCEPT !.op = op, !.arg = arg, !.blocks = @ \ {arg},
                         !.pc = IF chk = MEMPOOL_OK THEN "lock" ELSE "return",
                         !.result = chk,
                         !.expect = Outcome(PreLock(pool_out, lin.pool, op, arg),
                                            NULL, ZeroStats)]]
        /\ UNCHANGED <<pool, bitmap, link, mutex, lin>>
        /\ Untouched

\* mempool_lock with mempool_free entering its critical section without the
\* hook
mempool_lock_FreeUnlocked(t) ==
    LET me  == thread[t]
        seq == SeqCall(lin, me.op, me.arg)
    IN  /\ me.pc = "lock"
        /\ IF mempool_internal_lock(pool) # <<>> /\ me.op # "free"
           THEN lock_callback(t) ELSE UNCHANGED mutex
        /\ lin' = seq.after
        /\ thread' = [thread EXCEPT ![t] =
              [me EXCEPT !.pc = FirstLine(me.op), !.expect = seq.outcome]]
        /\ UNCHANGED <<pool, bitmap, link>>
        /\ Untouched

\* mempool_internal_lock(pool): the hook is called when it is enabled
mempool_lock(t) ==
    LET me  == thread[t]
        seq == SeqCall(lin, me.op, me.arg)
    IN  /\ me.pc = "lock"
        /\ IF mempool_internal_lock(pool) # <<>>
           THEN lock_callback(t) ELSE UNCHANGED mutex
        /\ lin' = seq.after
        /\ thread' = [thread EXCEPT ![t] =
              [me EXCEPT !.pc = FirstLine(me.op), !.expect = seq.outcome]]
        /\ UNCHANGED <<pool, bitmap, link>>
        /\ Untouched

\* the critical section of mempool_alloc
mempool_alloc_body(t) ==
    LET me == thread[t]
        Goto(l) == thread' = [thread EXCEPT ![t] = [me EXCEPT !.pc = l]]
    IN  /\ \/ /\ me.pc = "alloc_219"
              /\ thread' = [thread EXCEPT ![t] =
                    IF pool.free_list = NULL
                    THEN [me EXCEPT !.pc = "unlock",
                                    !.result = MEMPOOL_ERR_OUT_OF_MEMORY]
                    ELSE [me EXCEPT !.pc = "alloc_221"]]
              /\ UNCHANGED <<pool, bitmap, link>>
           \/ /\ me.pc = "alloc_221"
              /\ thread' = [thread EXCEPT ![t] =
                    IF pool.free_blocks = 0
                    THEN [me EXCEPT !.pc = "unlock",
                                    !.result = MEMPOOL_ERR_OUT_OF_MEMORY]
                    ELSE [me EXCEPT !.pc = "alloc_229"]]
              /\ UNCHANGED <<pool, bitmap, link>>
           \/ /\ me.pc = "alloc_229"
              /\ thread' = [thread EXCEPT ![t] =
                    [me EXCEPT !.pc = "alloc_230", !.node = pool.free_list]]
              /\ UNCHANGED <<pool, bitmap, link>>
           \/ /\ me.pc = "alloc_230"
              /\ me.node # NULL
              /\ pool' = [pool EXCEPT !.free_list = NodeNext(pool, link, me.node)]
              /\ Goto("alloc_231")
              /\ UNCHANGED <<bitmap, link>>
           \/ /\ me.pc = "alloc_231"
              /\ pool' = [pool EXCEPT !.free_blocks = @ - 1]
              /\ Goto("alloc_233")
              /\ UNCHANGED <<bitmap, link>>
           \/ /\ me.pc = "alloc_233"
              /\ pool' = [pool EXCEPT !.stats.alloc_count = U32(@ + 1)]
              /\ Goto("alloc_234")
              /\ UNCHANGED <<bitmap, link>>
           \/ /\ me.pc = "alloc_234"
              /\ pool' = [pool EXCEPT
                            !.stats.used_blocks = pool.total_blocks - pool.free_blocks]
              /\ Goto("alloc_235")
              /\ UNCHANGED <<bitmap, link>>
           \/ /\ me.pc = "alloc_235"
              /\ pool' = [pool EXCEPT !.stats.free_blocks = pool.free_blocks]
              /\ Goto("alloc_237")
              /\ UNCHANGED <<bitmap, link>>
           \/ /\ me.pc = "alloc_237"
              /\ pool' = [pool EXCEPT
                            !.stats.peak_usage =
                                IF pool.stats.used_blocks > @
                                THEN pool.stats.used_blocks ELSE @]
              /\ Goto("alloc_241")
              /\ UNCHANGED <<bitmap, link>>
           \/ /\ me.pc = "alloc_241"
              /\ me.node # NULL
              /\ bitmap' = BitmapSet(pool, bitmap,
                                     mempool_block_index(pool, me.node))
              /\ Goto("unlock")
              /\ UNCHANGED <<pool, link>>
        /\ UNCHANGED <<mutex, lin>>
        /\ Untouched

\* the critical section of mempool_free
mempool_free_body(t) ==
    LET me == thread[t]
        index == mempool_block_index(pool, me.arg)
        Goto(l) == thread' = [thread EXCEPT ![t] = [me EXCEPT !.pc = l]]
    IN  /\ \/ /\ me.pc = "free_285"
              /\ thread' = [thread EXCEPT ![t] =
                    IF index \div 8 >= pool.bitmap_bytes
                    THEN [me EXCEPT !.pc = "unlock",
                                    !.result = MEMPOOL_ERR_INVALID_BLOCK]
                    ELSE IF ~BitmapTest(bitmap, index)
                    THEN [me EXCEPT !.pc = "unlock",
                                    !.byte = bitmap[index \div 8],
                                    !.result = MEMPOOL_ERR_DOUBLE_FREE]
                    ELSE [me EXCEPT !.pc = "free_299",
                                    !.byte = bitmap[index \div 8]]]
              /\ UNCHANGED <<pool, bitmap, link>>
           \/ /\ me.pc = "free_299"
              /\ link' = [link EXCEPT ![index] = pool.free_list]
              /\ Goto("free_300")
              /\ UNCHANGED <<pool, bitmap>>
           \/ /\ me.pc = "free_300"
              /\ pool' = [pool EXCEPT !.free_list = me.arg]
              /\ Goto("free_302")
              /\ UNCHANGED <<bitmap, link>>
           \/ /\ me.pc = "free_302"
              /\ pool' = [pool EXCEPT
                            !.free_blocks =
                                IF @ < pool.total_blocks THEN @ + 1 ELSE @]
              /\ Goto("free_306")
              /\ UNCHANGED <<bitmap, link>>
           \/ /\ me.pc = "free_306"
              /\ pool' = [pool EXCEPT !.stats.free_count = U32(@ + 1)]
              /\ Goto("free_307")
              /\ UNCHANGED <<bitmap, link>>
           \/ /\ me.pc = "free_307"
              /\ pool' = [pool EXCEPT
                            !.stats.used_blocks = pool.total_blocks - pool.free_blocks]
              /\ Goto("free_308")
              /\ UNCHANGED <<bitmap, link>>
           \/ /\ me.pc = "free_308"
              /\ pool' = [pool EXCEPT !.stats.free_blocks = pool.free_blocks]
              /\ Goto("free_310")
              /\ UNCHANGED <<bitmap, link>>
           \/ /\ me.pc = "free_310"
              /\ bitmap' = [bitmap EXCEPT ![index \div 8] =
                                BitAnd(me.byte, NotU8(Shl1(index % 8)))]
              /\ Goto("unlock")
              /\ UNCHANGED <<pool, link>>
        /\ UNCHANGED <<mutex, lin>>
        /\ Untouched

\* the critical section of mempool_get_stats
mempool_get_stats_body(t) ==
    LET me == thread[t]
    IN  /\ me.pc = "get_stats_330"
        /\ thread' = [thread EXCEPT ![t] =
              [me EXCEPT !.pc = "unlock", !.out = pool.stats]]
        /\ UNCHANGED <<pool, bitmap, link, mutex, lin>>
        /\ Untouched

\* the critical section of mempool_reset
mempool_reset_body(t) ==
    LET me == thread[t]
        Goto(l) == thread' = [thread EXCEPT ![t] = [me EXCEPT !.pc = l]]
    IN  /\ \/ /\ me.pc = "reset_349"
              /\ bitmap' = ResetBitmap(pool, bitmap)
              /\ Goto("reset_351")
              /\ UNCHANGED <<pool, link>>
           \/ /\ me.pc = "reset_351"
              /\ link' = BuildLinks(pool.blocks_start, pool.block_size,
                                    pool.total_blocks)
              /\ Goto("reset_359")
              /\ UNCHANGED <<pool, bitmap>>
           \/ /\ me.pc = "reset_359"
              /\ pool' = [pool EXCEPT
                            !.free_list = BuildHead(pool.blocks_start,
                                                    pool.block_size,
                                                    pool.total_blocks)]
              /\ Goto("reset_360")
              /\ UNCHANGED <<bitmap, link>>
           \/ /\ me.pc = "reset_360"
              /\ pool' = [pool EXCEPT !.free_blocks = pool.total_blocks]
              /\ Goto("reset_362")
              /\ UNCHANGED <<bitmap, link>>
           \/ /\ me.pc = "reset_362"
              /\ pool' = [pool EXCEPT !.stats.total_blocks = pool.total_blocks]
              /\ Goto("reset_363")
              /\ UNCHANGED <<bitmap, link>>
           \/ /\ me.pc = "reset_363"
              /\ pool' = [pool EXCEPT !.stats.used_blocks = 0]
              /\ Goto("reset_364")
              /\ UNCHANGED <<bitmap, link>>
           \/ /\ me.pc = "reset_364"
              /\ pool' = [pool EXCEPT !.stats.free_blocks = pool.total_blocks]
              /\ Goto("reset_365")
              /\ UNCHANGED <<bitmap, link>>
           \/ /\ me.pc = "reset_365"
              /\ pool' = [pool EXCEPT !.stats.peak_usage = 0]
              /\ Goto("reset_366")
              /\ UNCHANGED <<bitmap, link>>
           \/ /\ me.pc = "reset_366"
              /\ pool' = [pool EXCEPT !.stats.alloc_count = 0]
              /\ Goto("reset_367")
              /\ UNCHANGED <<bitmap, link>>
           \/ /\ me.pc = "reset_367"
              /\ pool' = [pool EXCEPT !.stats.free_count = 0]
              /\ Goto("reset_368")
              /\ UNCHANGED <<bitmap, link>>
           \/ /\ me.pc = "reset_368"
              /\ pool' = [pool EXCEPT !.stats.block_size = pool.block_size]
              /\ Goto("unlock")
              /\ UNCHANGED <<bitmap, link>>
        /\ UNCHANGED <<mutex, lin>>
        /\ Untouched

\* mempool_internal_unlock(pool): the hook is called when it is enabled
mempool_unlock(t) ==
    LET me == thread[t]
    IN  /\ me.pc = "unlock"
        /\ IF mempool_internal_unlock(pool) # <<>>
           THEN unlock_callback(t) ELSE UNCHANGED mutex
        /\ thread' = [thread EXCEPT ![t] = [me EXCEPT !.pc = "return"]]
        /\ UNCHANGED <<pool, bitmap, link, lin>>
        /\ Untouched

\* the call returns: the worker keeps the block mempool_alloc gave it
thread_return(t) ==
    LET me == thread[t]
    IN  /\ me.pc = "return"
        /\ thread' = [thread EXCEPT ![t] =
              [NoThread EXCEPT
                  !.pc = "idle",
                  !.calls = me.calls + 1,
                  !.blocks = IF me.op = "alloc" /\ me.result = MEMPOOL_OK
                             THEN me.blocks \cup {me.node} ELSE me.blocks]]
        /\ UNCHANGED <<pool, bitmap, link, mutex, lin>>
        /\ Untouched

\* the worker function returns
thread_exit(t) ==
    /\ thread[t].pc = "idle"
    /\ thread' = [thread EXCEPT ![t].pc = "done"]
    /\ UNCHANGED <<pool, bitmap, link, mutex, lin>>
    /\ Untouched

\* after t.join() for every worker, the main thread reads the statistics
main_get_stats ==
    /\ \A t \in Clients : thread[t].pc = "done"
    /\ mempool_get_stats(0, pool_out, TRUE)

\* the steps of a call once the worker is in it
thread_step(t) ==
    \/ mempool_lock(t)
    \/ mempool_alloc_body(t)
    \/ mempool_free_body(t)
    \/ mempool_get_stats_body(t)
    \/ mempool_reset_body(t)
    \/ mempool_unlock(t)
    \/ thread_return(t)

ThreadInitArgs ==
    { InitArg(StateBuf, MEMPOOL_STATE_SIZE, PoolBuf, l[1], l[2], l[3], TRUE) :
        l \in ThreadLayouts }

\* workers that allocate and free the blocks they hold
NextOwners ==
    \/ \E a \in ThreadInitArgs : main_init(a)
    \/ main_set_sync
    \/ spawn
    \/ main_get_stats
    \/ \E t \in Clients :
        \/ thread_call(t, "alloc", NULL)
        \/ \E blk \in thread[t].blocks : thread_call(t, "free", blk)
        \/ mempool_lock(t)
        \/ mempool_alloc_body(t)
        \/ mempool_free_body(t)
        \/ mempool_unlock(t)
        \/ thread_return(t)
        \/ thread_exit(t)

SpecOwners == Init /\ [][NextOwners]_vars

\* the pointers the workers pass to mempool_free: every block, and an
\* address inside the first block
ThreadFreePtrs ==
    { BlockAddr(pool, i) : i \in 0 .. pool.total_blocks - 1 }
    \cup { pool.blocks_start + 1 }

\* workers that call alloc, free, reset and get_stats as they like
NextThreads ==
    \/ \E a \in ThreadInitArgs : main_init(a)
    \/ main_set_sync
    \/ spawn
    \/ main_get_stats
    \/ \E t \in Clients :
        \/ thread_call(t, "alloc", NULL)
        \/ \E blk \in ThreadFreePtrs : thread_call(t, "free", blk)
        \/ thread_call(t, "reset", NULL)
        \/ thread_call(t, "get_stats", NULL)
        \/ thread_step(t)
        \/ thread_exit(t)

SpecThreads == Init /\ [][NextThreads]_vars

\* the blocks thread t has been given and has not passed to free: those it
\* keeps, and the one the alloc it is in has taken off the free list
Given(t) ==
    thread[t].blocks
    \cup (IF thread[t].op = "alloc" /\ thread[t].node # NULL
          THEN {thread[t].node} ELSE {})

(* C21: with the mutex hook installed, under every interleaving of alloc   *)
(* and free calls of several threads, each freeing only blocks it holds,   *)
(* no block is held by two threads at once: alloc never gives a thread a   *)
(* block that another thread has been given and has not yet freed.         *)
C21_NoBlockHeldTwice ==
    \A t, u \in Clients :
        (t # u) => (Given(t) \cap Given(u) = {})

\* alloc returns a block to one thread while the other thread holds one
C21_Witness ==
    /\ thread[1].blocks # {}
    /\ thread[2].op = "alloc" /\ thread[2].pc = "return"
    /\ thread[2].result = MEMPOOL_OK
    /\ thread[2].node # NULL
    /\ thread[2].node \notin thread[1].blocks

(* C22: with the mutex hook installed and the threads each repeating       *)
(* 'alloc, and if it returned OK free the returned block', under every     *)
(* interleaving each alloc returns only OK (with a block) or               *)
(* OUT_OF_MEMORY, each free returns OK, and once all threads have finished *)
(* with every block freed, get_stats reports used_blocks = 0 and           *)
(* free_blocks = total_blocks.                                             *)
C22_WorkersSeeNoSpuriousError ==
    /\ \A t \in Clients :
          (thread[t].pc = "return") =>
              /\ (thread[t].op = "alloc") =>
                    \/ thread[t].result = MEMPOOL_OK /\ thread[t].node # NULL
                    \/ thread[t].result = MEMPOOL_ERR_OUT_OF_MEMORY
              /\ (thread[t].op = "free") => thread[t].result = MEMPOOL_OK
    /\ (/\ ret.op = "get_stats" /\ ret.client = 0
        /\ \A t \in Clients : thread[t].pc = "done" /\ thread[t].blocks = {}) =>
          /\ ret.result = MEMPOOL_OK
          /\ ret.stats.used_blocks = 0
          /\ ret.stats.free_blocks = ret.stats.total_blocks
          /\ ret.stats.total_blocks = pool.total_blocks

\* the workers are done, two blocks were out at once and all are back
C22_Witness ==
    /\ ret.op = "get_stats" /\ ret.client = 0
    /\ \A t \in Clients :
          thread[t].pc = "done" /\ thread[t].blocks = {} /\ thread[t].calls = MaxCalls
    /\ ret.stats.peak_usage = 2
    /\ ret.stats.free_count = 2

\* the statistics st are those of a pool between two calls
ConsistentStats(st) ==
    /\ st.used_blocks + st.free_blocks = st.total_blocks
    /\ st.peak_usage >= st.used_blocks
    /\ st.alloc_count - st.free_count = st.used_blocks

\* thread t is inside the critical section of the call it is in
InCritical(t) == thread[t].pc \notin {"unborn", "idle", "lock", "return", "done"}

(* C23: with the mutex hook installed, every statistics snapshot get_stats *)
(* returns while other threads are executing alloc, free or reset is a     *)
(* consistent copy taken inside the critical section: used + free = total, *)
(* peak >= used, alloc_count - free_count = used, and it is the            *)
(* statistics of the pool as the calls that took the lock before it left   *)
(* them, never those of a partially applied alloc, free or reset.          *)
C23_StatsSnapshotConsistent ==
    \A t \in Clients :
        (thread[t].op = "get_stats" /\ thread[t].pc \in {"unlock", "return"}) =>
            /\ thread[t].result = MEMPOOL_OK
            /\ ConsistentStats(thread[t].out)
            /\ thread[t].out.total_blocks = pool.total_blocks
            /\ thread[t].out = thread[t].expect.stats

\* a snapshot with a block in use is about to be returned while the other
\* thread is in the middle of its critical section
C23_Witness ==
    /\ thread[1].op = "get_stats" /\ thread[1].pc = "return"
    /\ thread[1].out.used_blocks >= 1
    /\ InCritical(2)
    /\ ~ConsistentStats(pool.stats)

(* C24: with the mutex hook installed, operations are linearized at the    *)
(* lock: every call of alloc, free, reset and get_stats made by the        *)
(* threads returns what it returns when the calls are run one at a time in *)
(* the order in which they took the lock, and whenever the lock is free    *)
(* the pool is the pool that sequential run leaves; a free that fails the  *)
(* range and alignment checks before the lock returns what the sequential  *)
(* run returns as well.                                                    *)
C24_LinearizedAtTheLock ==
    /\ \A t \in Clients :
          (thread[t].pc = "return") =>
              Outcome(thread[t].result, thread[t].node, thread[t].out)
                  = thread[t].expect
    /\ (lin.taken /\ mutex = 0) => (Snapshot(pool, bitmap, link) = lin)

\* a free is refused before the lock while the other thread is in the
\* middle of a reset that follows an alloc
C24_Witness ==
    /\ thread[1].op = "free" /\ thread[1].pc = "return"
    /\ thread[1].result = MEMPOOL_ERR_INVALID_BLOCK
    /\ thread[2].op = "reset" /\ thread[2].pc = "reset_360"
    /\ mutex = 2
    /\ pool.stats.alloc_count >= 1

\* the steps of a call that wait for nothing
thread_progress(t) ==
    \/ mempool_alloc_body(t)
    \/ mempool_free_body(t)
    \/ mempool_get_stats_body(t)
    \/ mempool_reset_body(t)
    \/ mempool_unlock(t)
    \/ thread_return(t)

\* the number of calls each worker thread makes at most when the threads
\* are run to their end
FairCalls == 2

\* the workers of NextThreads with FairCalls calls each
NextFair ==
    \/ \E a \in ThreadInitArgs : main_init(a)
    \/ main_set_sync
    \/ spawn
    \/ main_get_stats
    \/ \E t \in Clients :
        \/ /\ thread[t].calls < FairCalls
           /\ \/ thread_call(t, "alloc", NULL)
              \/ \E blk \in ThreadFreePtrs : thread_call(t, "free", blk)
              \/ thread_call(t, "reset", NULL)
              \/ thread_call(t, "get_stats", NULL)
        \/ thread_step(t)
        \/ thread_exit(t)

\* the scheduler runs every thread that can take a step, and the mutex is
\* fair: a thread that waits for it while it is free again and again gets it
SpecThreadsFair ==
    /\ Init
    /\ [][NextFair]_vars
    /\ \A t \in Clients :
          WF_vars(thread_progress(t)) /\ SF_vars(mempool_lock(t))

\* thread t is in a call
InCall(t) == thread[t].pc \notin {"unborn", "idle", "done"}

(* C25: with a fair mutex as the hook and finitely many threads each       *)
(* making finitely many alloc, free, reset and get_stats calls, every call *)
(* eventually returns and the lock is eventually free: the system never    *)
(* deadlocks, and no call returns while the lock it took is still held.    *)
C25_EveryCallReturns ==
    /\ \A t \in Clients : InCall(t) ~> (thread[t].pc = "idle")
    /\ (mutex # 0) ~> (mutex = 0)
    /\ [](\A t \in Clients : (thread[t].pc \in {"return", "idle", "done"}) => mutex # t)

\* a thread waits for the lock while the other thread holds it in a reset
C25_Witness ==
    /\ thread[1].pc = "lock" /\ thread[1].op = "alloc"
    /\ mutex = 2
    /\ thread[2].op = "reset" /\ InCritical(2)
    /\ thread[1].calls >= 1

-----------------------------------------------------------------------------
(* Callers that install, replace and remove the hook *)

\* the (lock, unlock, user_ctx) triples passed to mempool_set_sync: two
\* complete hooks, and triples with one or both callbacks null
HookArgs ==
    { <<LockFn, UnlockFn, UserCtx>>, <<PoolLockFn, PoolUnlockFn, PoolCtx>>,
      <<LockFn, NULL, UserCtx>>, <<NULL, PoolUnlockFn, PoolCtx>>,
      <<NULL, NULL, NULL>> }

NextSync ==
    \E c \in {1} :
        \/ \E a \in SharedInitArgs : mempool_init(c, a)
        \/ mempool_alloc(c, pool_out, TRUE)
        \/ \E blk \in FreePtrs : mempool_free(c, pool_out, blk)
        \/ mempool_get_stats(c, pool_out, TRUE)
        \/ mempool_reset(c, pool_out)
        \/ \E p \in PoolArgs, sy \in HookArgs : mempool_set_sync(c, p, sy)

SpecSync == Init /\ [][NextSync]_vars

\* the call r entered a critical section
Critical(r) ==
    /\ r.op \in {"alloc", "free", "reset", "get_stats"}
    /\ r.result \notin {MEMPOOL_ERR_NULL_PTR, MEMPOOL_ERR_NOT_INITIALIZED,
                        MEMPOOL_ERR_INVALID_BLOCK}

(* C26: set_sync on an initialized pool returns OK, and then: if both lock *)
(* and unlock were non-null, every later alloc, free, reset and get_stats  *)
(* critical section calls exactly lock(ctx) and unlock(ctx) with the       *)
(* callbacks and the ctx given; if either was null, no later operation     *)
(* calls any callback, neither one installed before nor the non-null one   *)
(* just passed.                                                            *)
C26_SetSyncDecidesHookCalls ==
    [][/\ (ret'.op = "set_sync" /\ ret'.pool # NULL /\ pool.initialized) =>
              ret'.result = MEMPOOL_OK
       /\ LET sy == hist.installed
          IN  IF sy[1] # NULL /\ sy[2] # NULL /\ Critical(ret')
              THEN ret'.hooks = <<[fn |-> sy[1], ctx |-> sy[3]],
                                  [fn |-> sy[2], ctx |-> sy[3]]>>
              ELSE ret'.hooks = <<>>]_vars

\* an alloc calls nothing after a set_sync that passed only an unlock
\* callback, which the pool has stored
C26_Witness ==
    /\ ret.op = "alloc" /\ ret.result = MEMPOOL_OK
    /\ ret.hooks = <<>>
    /\ hist.installed = <<NULL, PoolUnlockFn, PoolCtx>>
    /\ pool.sync.unlock = PoolUnlockFn
    /\ pool.stats.alloc_count >= 2

-----------------------------------------------------------------------------
(* mempool_init on fresh buffers, over ranges of arguments *)

\* argument tuples that fail one or several of the argument checks
FaultInputs ==
    { InitArg(sb, ss, pb, ps, bs, al, po) :
        sb \in {NULL, StateBuf},
        ss \in {SizeofMempool - 1, SizeofMempool},
        pb \in {NULL, PoolBuf, PoolBuf + 4},
        ps \in {0, 7, 32},
        bs \in {0, 4, 8},
        al \in {0, 3, 8},
        po \in BOOLEAN }

\* the largest pool_buffer_size of the layouts tried
MaxPoolSize == 80

\* argument tuples that pass the argument checks: pool sizes up to
\* MaxPoolSize, block sizes that are and are not multiples of the alignment
LayoutInputs ==
    { InitArg(StateBuf, MEMPOOL_STATE_SIZE, PoolBuf, ps, bs, al, TRUE) :
        ps \in 1 .. MaxPoolSize, bs \in {8, 12}, al \in {1, 8, 16} }

\* each test calls mempool_init first, on buffers no pool has used
first_init(a) ==
    /\ ret.op = "none"
    /\ mempool_init(1, a)

NextInit == \E a \in FaultInputs \cup LayoutInputs : first_init(a)

SpecInit == Init /\ [][NextInit]_vars

C28_FailingInitChangesNothing ==
    [][(ret'.op = "init" /\ ret'.result # MEMPOOL_OK) =>
           /\ UNCHANGED <<pool, bitmap, link, pool_out>>
           /\ pool.initialized => pool'.initialized]_vars

-----------------------------------------------------------------------------
(* mempool_init run again on the buffers of a pool in use *)

NextReinit ==
    \E c \in {1} :
        \/ \E l \in Layouts :
              mempool_init(c, InitArg(StateBuf, MEMPOOL_STATE_SIZE, PoolBuf,
                                      l[1], l[2], l[3], TRUE))
        \/ mempool_alloc(c, pool_out, TRUE)
        \/ \E blk \in held : mempool_free(c, pool_out, blk)
        \/ mempool_set_sync(c, pool_out, <<LockFn, UnlockFn, UserCtx>>)
        \/ \E blk \in held : client_write(c, blk, ExternalBuf)

SpecReinit == InitRevoked /\ [][NextReinit]_vars

(* C29: the state a successful init leaves depends only on its arguments:  *)
(* total = free = N, used = 0, peak = 0, alloc_count = 0, free_count = 0,  *)
(* every bitmap bit clear, all N blocks on the free list, the hook         *)
(* disabled; also when init runs on buffers that held a pool with blocks   *)
(* in use and a hook installed.                                            *)
C29_InitStateFromArgumentsOnly ==
    [][(ret'.op = "init" /\ ret'.result = MEMPOOL_OK) =>
        LET a       == ret'.arg
            aligned == ((a.block_size + a.alignment - 1) \div a.alignment)
                           * a.alignment
            Bytes(n) == (n + 7) \div 8
            Pad(n)  == (a.alignment - (Bytes(n) % a.alignment)) % a.alignment
            Fits(n) == Bytes(n) + Pad(n) + n * aligned <= a.pool_buffer_size
            N       == CHOOSE n \in 1 .. a.pool_buffer_size :
                           /\ Fits(n)
                           /\ \A m \in n + 1 .. a.pool_buffer_size : ~Fits(m)
            first   == a.pool_buffer + Bytes(N) + Pad(N)
        IN  /\ pool' =
                 [pool_buffer_start |-> a.pool_buffer,
                  blocks_start |-> first,
                  free_list |-> first + (N - 1) * aligned,
                  bitmap |-> a.pool_buffer,
                  bitmap_bytes |-> Bytes(N),
                  block_size |-> aligned,
                  total_blocks |-> N,
                  free_blocks |-> N,
                  alignment |-> a.alignment,
                  stats |-> [total_blocks |-> N, used_blocks |-> 0,
                             free_blocks |-> N, peak_usage |-> 0,
                             alloc_count |-> 0, free_count |-> 0,
                             block_size |-> aligned],
                  sync |-> [lock |-> NULL, unlock |-> NULL, user_ctx |-> NULL],
                  sync_enabled |-> FALSE,
                  initialized |-> TRUE]
            /\ bitmap' = [i \in 0 .. Bytes(N) - 1 |-> 0]
            /\ ChainOf(pool', link', pool'.free_list, N + 1)
                   = [k \in 1 .. N |-> first + (N - k) * aligned]
            /\ pool_out' = a.state_buffer]_vars

\* init has just succeeded on the buffers of a pool that had blocks in use
\* and a hook installed
C29_Witness ==
    /\ ret.op = "init" /\ ret.result = MEMPOOL_OK
    /\ hist.reused
    /\ pool.total_blocks = 3
    /\ ~pool.sync_enabled
    /\ pool.stats.used_blocks = 0

-----------------------------------------------------------------------------
(* mempool_init on fresh buffers, with sizes at the limits of the widths *)

\* argument tuples with sizes at and around UINT32_MAX and SIZE_MAX
WidthInputs ==
    { InitArg(StateBuf, MEMPOOL_STATE_SIZE, PoolBuf, ps, bs, al, TRUE) :
        ps \in {UINT32_MAX, UINT32_MAX + 9, 2 * UINT32_MAX + 34,
                (SIZE_MAX + 1) \div 2, SIZE_MAX - 1, SIZE_MAX},
        bs \in {8, 12, UINT32_MAX, UINT32_MAX + 1, UINT32_MAX + 2,
                UINT32_MAX + 9, SIZE_MAX - 3, SIZE_MAX},
        al \in {1, 8, UINT32_MAX + 1} }

\* the pointers a caller asks mempool_contains about after init: the block
\* the next alloc returns, the first block and a foreign address
NextWidth ==
    \/ \E a \in WidthInputs \cup LayoutInputs : first_init(a)
    \/ \E ptr \in {pool.free_list, pool.blocks_start, ExternalBuf} :
          /\ ret.op # "none"
          /\ mempool_contains(1, pool_out, ptr)

SpecWidth == Init /\ [][NextWidth]_vars

(* C31: for every argument combination for which init returns OK, the     *)
(* blocks region lies inside the pool region (blocks_offset + total_blocks *)
(* * block_size <= pool_region_size), blocks_offset is a multiple of the   *)
(* alignment, and the bitmap bytes [0, ceil(total_blocks/8)) end at or     *)
(* before blocks_offset.                                                   *)
C31_BlocksInsidePoolRegion ==
    [][(ret'.op = "init" /\ ret'.result = MEMPOOL_OK) =>
        LET a       == ret'.arg
            aligned == ((a.block_size + a.alignment - 1) \div a.alignment)
                           * a.alignment
            blocks_offset ==
                Size(pool'.blocks_start + (SIZE_MAX + 1) - a.pool_buffer)
        IN  /\ blocks_offset + pool'.total_blocks * aligned
                   <= a.pool_buffer_size
            /\ blocks_offset % a.alignment = 0
            /\ (pool'.total_blocks + 7) \div 8 <= blocks_offset]_vars

(* C32: after every successful init, the block_size get_stats reports and  *)
(* the index and range computations use equals the requested block_size    *)
(* rounded up to the next multiple of the alignment, is >= the requested   *)
(* block_size and >= the size of a free-list link, and is never zero.      *)
C32_BlockSizeIsRoundedUp ==
    [][(ret'.op = "init" /\ ret'.result = MEMPOOL_OK) =>
        LET a       == ret'.arg
            aligned == ((a.block_size + a.alignment - 1) \div a.alignment)
                           * a.alignment
        IN  /\ pool'.stats.block_size = aligned
            /\ pool'.block_size = aligned
            /\ pool'.block_size >= a.block_size
            /\ pool'.block_size >= SizeofFreeNode
            /\ pool'.block_size # 0]_vars

-----------------------------------------------------------------------------
(* C33: for alloc, free, reset, get_stats and set_sync: if a required      *)
(* pointer argument (pool, block output, block, stats output) is null the  *)
(* call returns NULL_POINTER; otherwise, if the pool is not initialized it *)
(* returns NOT_INITIALIZED; in both cases no pool state is changed and no  *)
(* hook callback is called, and contains returns false.                    *)
C33_NullThenUninitialized ==
    [][LET r        == ret'
           required == IF r.op \in {"alloc", "free", "get_stats"}
                       THEN {r.pool, r.arg} ELSE {r.pool}
           missing  == NULL \in required
       IN  /\ (r.op \in {"alloc", "free", "reset", "get_stats", "set_sync"}) =>
                /\ missing => r.result = MEMPOOL_ERR_NULL_PTR
                /\ (~missing /\ ~pool.initialized) =>
                       r.result = MEMPOOL_ERR_NOT_INITIALIZED
                /\ (missing \/ ~pool.initialized) =>
                       /\ UNCHANGED <<pool, bitmap, link, pool_out>>
                       /\ r.hooks = <<>>
           /\ (r.op = "contains" /\ (r.pool = NULL \/ ~pool.initialized)) =>
                /\ r.result = FALSE
                /\ UNCHANGED <<pool, bitmap, link, pool_out>>
                /\ r.hooks = <<>>]_vars

\* get_stats without a stats pointer is refused as a null pointer on a
\* handle whose pool is not initialized
C33_Witness ==
    /\ ret.op = "get_stats" /\ ret.result = MEMPOOL_ERR_NULL_PTR
    /\ ret.pool # NULL /\ ret.arg = NULL
    /\ ~pool.initialized

(* C34: contains(pool, p) is true if and only if pool is non-null and      *)
(* initialized, p is non-null and p lies in [blocks_start, blocks_start +   *)
(* total_blocks * block_size); the answer is the same whether the block is *)
(* allocated or free and whether or not p is on a block boundary, so it is *)
(* true for every pointer alloc returned, before and after it is freed     *)
(* (and for the head of the free list, which the next alloc returns);      *)
(* contains changes no state.                                              *)
C34_ContainsIsRangeTest ==
    [][(ret'.op = "contains") =>
        LET in_range ==
                /\ ret'.pool # NULL
                /\ pool.initialized
                /\ ret'.arg # NULL
                /\ ret'.arg >= pool.blocks_start
                /\ ret'.arg < pool.blocks_start
                                  + pool.total_blocks * pool.block_size
        IN  /\ ret'.result = in_range
            /\ (/\ ret'.pool # NULL /\ pool.initialized
                /\ ret'.arg # NULL
                /\ \/ ret'.arg \in held \cup stale[ret'.client]
                   \/ ret'.arg = pool.free_list) =>
                   ret'.result = TRUE
            /\ UNCHANGED <<pool, bitmap, link, pool_out>>
            /\ ret'.hooks = <<>>]_vars

-----------------------------------------------------------------------------
(* A caller with two pools over disjoint buffers *)

\* addresses of the second state buffer and of the second pool buffer,
\* which follows the first pool buffer (of at most 40 bytes) directly
State2Buf == 4224
Pool2Buf  == 8232

\* the caller turns to its other pool: the memory and the handle of the
\* pool its calls went to are set aside, those of the other are taken up
switch ==
    /\ other' = [id |-> 3 - other.id, pool |-> pool, bitmap |-> bitmap,
                 link |-> link, pool_out |-> pool_out, held |-> held]
    /\ pool' = other.pool
    /\ bitmap' = other.bitmap
    /\ link' = other.link
    /\ pool_out' = other.pool_out
    /\ held' = other.held
    /\ run' = BrokenRun
    /\ freed' = {}
    /\ stale' = NoStale
    /\ hist' = ClearHist(hist)
    /\ UNCHANGED <<ret, mutex, thread, lin>>

\* the blocks of control block p
BlocksOf(p) ==
    IF p.initialized
    THEN { BlockAddr(p, i) : i \in 0 .. p.total_blocks - 1 }
    ELSE {}

NextPools ==
    \/ \E l \in ThreadLayouts :
          mempool_init(1, InitArg(IF other.id = 2 THEN StateBuf ELSE State2Buf,
                                  MEMPOOL_STATE_SIZE,
                                  IF other.id = 2 THEN PoolBuf ELSE Pool2Buf,
                                  l[1], l[2], l[3], TRUE))
    \/ mempool_alloc(1, pool_out, TRUE)
    \/ \E blk \in held \cup BlocksOf(other.pool) :
          mempool_free(1, pool_out, blk)
    \/ \E ptr \in BlocksOf(pool) \cup BlocksOf(other.pool)
                    \cup { b + 1 : b \in BlocksOf(other.pool) } :
          mempool_contains(1, pool_out, ptr)
    \/ switch

SpecPools == Init /\ [][NextPools]_vars

(* C35: two pools initialized over disjoint state and pool regions are     *)
(* independent: no operation on one pool changes the state or the stats of *)
(* the other, contains(P1, B) is false and free(P1, B) returns             *)
(* INVALID_BLOCK for every block B of P2 (and symmetrically), while        *)
(* contains is true for each pool's own blocks.                            *)
C35_PoolsAreIndependent ==
    [][(other'.id = other.id /\ pool.initialized /\ other.pool.initialized) =>
        /\ other' = other
        /\ (ret'.op = "contains" /\ ret'.arg \in BlocksOf(other.pool)) =>
               ret'.result = FALSE
        /\ (ret'.op = "free" /\ ret'.arg \in BlocksOf(other.pool)) =>
               /\ ret'.result = MEMPOOL_ERR_INVALID_BLOCK
               /\ UNCHANGED <<pool, bitmap, link>>
        /\ (ret'.op = "contains" /\ ret'.arg \in BlocksOf(pool)) =>
               ret'.result = TRUE]_vars

\* the second pool has refused to free a block that the first pool has
\* handed out, while a block of its own is out
C35_Witness ==
    /\ other.id = 1
    /\ ret.op = "free" /\ ret.result = MEMPOOL_ERR_INVALID_BLOCK
    /\ ret.arg \in other.held
    /\ held # {}
    /\ pool.initialized /\ other.pool.initialized

-----------------------------------------------------------------------------
(* mempool_init statement by statement *)

\* The caller's position inside mempool_init is kept in thread[1] (no worker
\* is started here): pc is the next line of the function, arg its arguments.
\* The call, the argument checks and the memset of the state region
init_call(a) ==
    /\ \A t \in Clients : thread[t].pc = "unborn"
    /\ InitArgCheck(a) = MEMPOOL_OK
    /\ pool' = ZeroPool
    /\ thread' = [thread EXCEPT ![1] =
                     [NoThread EXCEPT !.pc = "init_120", !.op = "init",
                                      !.arg = a]]
    /\ UNCHANGED <<bitmap, link, mutex, lin>>
    /\ Untouched

\* the statements of mempool_init after the memset, one at a time
init_line ==
    LET me == thread[1]
        a == me.arg
        goto(line) == thread' = [thread EXCEPT ![1].pc = line]
    IN  /\ me.op = "init"
        /\ \E max_blocks \in Quotients(a.pool_buffer_size,
                                       align_up(a.block_size, a.alignment)) :
           LET lay == InitLayout(a, max_blocks)
               fails == \/ max_blocks \in {Trap, 0}
                        \/ ~lay.search.found \/ lay.search.n = 0
                        \/ lay.search.n > UINT32_MAX
                        \/ lay.search.bitmap_bytes > UINT32_MAX
           IN  CASE me.pc = "init_120" ->
                      IF fails
                      THEN /\ thread' = [thread EXCEPT ![1] = NoThread]
                           /\ ret' = Call("init", 0, a.state_buffer, a,
                                          IF max_blocks = Trap THEN Trap
                                          ELSE MEMPOOL_ERR_INVALID_SIZE,
                                          InitZeroEvents)
                           /\ run' = BrokenRun
                           /\ hist' = ClearHist(hist)
                           /\ UNCHANGED <<pool, bitmap, link, mutex, lin,
                                          pool_out, held, freed, stale, other>>
                      ELSE /\ goto("init_165")
                           /\ UNCHANGED <<pool, bitmap, link, mutex, lin>>
                           /\ Untouched
                 [] me.pc = "init_165" ->
                      /\ pool' = [InitPool(a, lay) EXCEPT
                                     !.free_list = NULL,
                                     !.initialized = FALSE]
                      /\ goto("init_187")
                      /\ UNCHANGED <<bitmap, link, mutex, lin>>
                      /\ Untouched
                 [] me.pc = "init_187" ->
                      /\ pool' = [pool EXCEPT !.initialized = TRUE]
                      /\ goto("init_189")
                      /\ UNCHANGED <<bitmap, link, mutex, lin>>
                      /\ Untouched
                 [] me.pc = "init_189" ->
                      /\ bitmap' = [i \in 0 .. pool.bitmap_bytes - 1 |-> 0]
                      /\ goto("init_191")
                      /\ UNCHANGED <<pool, link, mutex, lin>>
                      /\ Untouched
                 [] me.pc = "init_191" ->
                      /\ link' = BuildLinks(pool.blocks_start,
                                            lay.aligned_block_size,
                                            pool.total_blocks)
                      /\ pool' = [pool EXCEPT
                                     !.free_list =
                                         BuildHead(pool.blocks_start,
                                                   lay.aligned_block_size,
                                                   pool.total_blocks)]
                      /\ goto("init_201")
                      /\ UNCHANGED <<bitmap, mutex, lin>>
                      /\ Untouched
                 [] me.pc = "init_201" ->
                      /\ pool_out' = a.state_buffer
                      /\ thread' = [thread EXCEPT ![1] = NoThread]
                      /\ ret' = Call("init", 0, a.state_buffer, a, MEMPOOL_OK,
                                     InitEvents)
                      /\ held' = {}
                      /\ run' = FreshRun
                      /\ freed' = {}
                      /\ stale' = NoStale
                      /\ hist' = [ClearHist(hist) EXCEPT
                                     !.initial = Snapshot(pool, bitmap, link)]
                      /\ UNCHANGED <<pool, bitmap, link, mutex, lin, other>>

\* a caller that sets a pool up, uses it, and sets it up again in the same
\* buffers
NextInitLines ==
    \/ \E a \in { i \in LayoutInputs : i.pool_buffer_size \in {7, 16, 25, 40} } :
          init_call(a)
    \/ init_line
    \/ /\ thread[1].op = "none"
       /\ mempool_alloc(1, pool_out, TRUE)
    \/ \E ptr \in held :
          /\ thread[1].op = "none"
          /\ mempool_free(1, pool_out, ptr)

SpecInitLines == Init /\ [][NextInitLines]_vars

\* C36: at every step inside a mempool_init call at which the control block
\* shows initialized = true, the bitmap has been zeroed and the free list
\* holds every block: whoever sees the flag set sees a pool in its post-init
\* form.
C36_InitializedSetLast ==
    (thread[1].op = "init" /\ pool.initialized) =>
        /\ DOMAIN bitmap = 0 .. pool.bitmap_bytes - 1
        /\ \A i \in DOMAIN bitmap : bitmap[i] = 0
        /\ Len(ChainOf(pool, link, pool.free_list, pool.total_blocks + 1))
              = pool.total_blocks

-----------------------------------------------------------------------------
(* A caller that allocates and frees for as long as it likes *)

InitLong ==
    /\ pool = ZeroPool
    /\ bitmap = <<>>
    /\ link = <<>>
    /\ pool_out = NULL
    /\ ret = Call("none", 1, NULL, NULL, MEMPOOL_OK, <<>>)
    /\ held = {}
    /\ run = BrokenRun
    /\ freed = {}
    /\ stale = NoStale
    /\ hist = [NoHist EXCEPT !.long = TRUE]
    /\ mutex = 0
    /\ thread = [t \in Clients |-> NoThread]
    /\ lin = NoSnapshot
    /\ other = NoOther

\* one pool of one block: every alloc is followed by a free, a failing call
\* or a reset
NextLong ==
    \/ first_init(InitArg(StateBuf, MEMPOOL_STATE_SIZE, PoolBuf, 16, 8, 8, TRUE))
    \/ mempool_alloc(1, pool_out, TRUE)
    \/ \E ptr \in held \cup stale[1] \cup {ExternalBuf} :
          mempool_free(1, pool_out, ptr)
    \/ mempool_get_stats(1, pool_out, TRUE)
    \/ mempool_reset(1, pool_out)

SpecLong == InitLong /\ [][NextLong]_vars

\* C37: between one init or reset and the next, a successful alloc raises
\* alloc_count by exactly 1, a successful free raises free_count by exactly
\* 1, a failing call changes neither, and neither counter ever decreases,
\* however long the sequence of calls.
C37_CountersAreMonotonic ==
    [][ret'.op \in {"alloc", "free", "get_stats"} =>
          LET ok == ret'.result = MEMPOOL_OK
          IN  /\ pool'.stats.alloc_count =
                    pool.stats.alloc_count
                    + (IF ret'.op = "alloc" /\ ok THEN 1 ELSE 0)
              /\ pool'.stats.free_count =
                    pool.stats.free_count
                    + (IF ret'.op = "free" /\ ok THEN 1 ELSE 0)
              /\ pool'.stats.alloc_count >= pool.stats.alloc_count
              /\ pool'.stats.free_count >= pool.stats.free_count]_vars

-----------------------------------------------------------------------------
(* Two threads that free the same block *)

\* the main thread takes blocks from the pool before it starts the workers
main_alloc ==
    /\ \A t \in Clients : thread[t].pc = "unborn"
    /\ pool.sync_enabled
    /\ mempool_alloc(0, pool_out, TRUE)

\* each worker makes one call: mempool_free on a block the main thread took
NextShared ==
    \/ \E a \in ThreadInitArgs : main_init(a)
    \/ main_set_sync
    \/ main_alloc
    \/ spawn
    \/ \E t \in Clients :
        \/ \E blk \in held :
              /\ thread[t].calls = 0
              /\ thread_call(t, "free", blk)
        \/ mempool_lock(t)
        \/ mempool_free_body(t)
        \/ mempool_unlock(t)
        \/ thread_return(t)
        \/ thread_exit(t)

SpecShared == Init /\ [][NextShared]_vars

\* C38: with the mutex hook installed, when two threads call mempool_free
\* on the same allocated block at the same time, under every interleaving
\* one call returns OK and the other DOUBLE_FREE, the block is on the free
\* list exactly once, and free_blocks and free_count have each grown by
\* exactly 1.
C38_ConcurrentFreeOfOneBlock ==
    LET a == thread[1]
        b == thread[2]
        nodes == FreeList.nodes
    IN  (/\ a.pc = "return" /\ a.op = "free"
         /\ b.pc = "return" /\ b.op = "free"
         /\ a.arg = b.arg) =>
            /\ {a.result, b.result} = {MEMPOOL_OK, MEMPOOL_ERR_DOUBLE_FREE}
            /\ Cardinality({ k \in 1 .. Len(nodes) : nodes[k] = a.arg }) = 1
            /\ FreeList.ended
            /\ pool.free_blocks = pool.total_blocks - Cardinality(held) + 1
            /\ pool.stats.free_blocks = pool.free_blocks
            /\ pool.stats.free_count = 1

\* both workers have freed the second of two blocks the main thread took;
\* the second worker's call went through and the first one's was refused
C38_Witness ==
    /\ Cardinality(held) = 2
    /\ thread[1].pc = "return" /\ thread[1].op = "free"
    /\ thread[2].pc = "return" /\ thread[2].op = "free"
    /\ thread[1].arg = thread[2].arg
    /\ thread[1].arg = BlockAddr(pool, 1)
    /\ thread[1].result = MEMPOOL_ERR_DOUBLE_FREE
    /\ thread[2].result = MEMPOOL_OK

-----------------------------------------------------------------------------
(* C39: mempool_reset does not touch the hook record: lock, unlock,        *)
(* user_ctx and the enabled flag that set_sync installed are the same      *)
(* after a reset as before it; the reset itself runs between lock(ctx) and *)
(* unlock(ctx), and so does the call that follows it.                      *)
C39_ResetKeepsHook ==
    [][/\ (ret'.op = "reset") =>
              /\ pool'.sync = pool.sync
              /\ pool'.sync_enabled = pool.sync_enabled
              /\ hist'.installed = hist.installed
              /\ (ret'.result = MEMPOOL_OK /\ pool.sync_enabled) =>
                    Bracketed(ret'.trace, pool.sync)
       /\ (/\ ret.op = "reset" /\ ret.result = MEMPOOL_OK
           /\ pool.sync_enabled /\ Critical(ret')) =>
              /\ Bracketed(ret'.trace, pool.sync)
              /\ pool.sync = [lock |-> hist.installed[1],
                              unlock |-> hist.installed[2],
                              user_ctx |-> hist.installed[3]]]_vars

\* a reset of a pool that has handed out and taken back a block has run
\* inside the pool's own hook, which is still installed after it
C39_Witness ==
    /\ ret.op = "reset" /\ ret.result = MEMPOOL_OK
    /\ ret.hooks = <<[fn |-> PoolLockFn, ctx |-> PoolCtx],
                     [fn |-> PoolUnlockFn, ctx |-> PoolCtx]>>
    /\ stale[1] # {}
    /\ pool.sync_enabled
    /\ pool.sync = [lock |-> PoolLockFn, unlock |-> PoolUnlockFn,
                    user_ctx |-> PoolCtx]
    /\ pool.stats.used_blocks = 0

-----------------------------------------------------------------------------
(* The layout of the pool while worker threads use it *)

\* workers that call alloc, free, reset, get_stats and contains as they like
NextLayout ==
    \/ \E a \in ThreadInitArgs : main_init(a)
    \/ main_set_sync
    \/ spawn
    \/ main_get_stats
    \/ \E t \in Clients :
        \/ thread_call(t, "alloc", NULL)
        \/ \E blk \in ThreadFreePtrs : thread_call(t, "free", blk)
        \/ thread_call(t, "reset", NULL)
        \/ thread_call(t, "get_stats", NULL)
        \/ \E ptr \in {pool.blocks_start,
                       pool.blocks_start + pool.total_blocks * pool.block_size} :
              /\ thread[t].pc = "idle"
              /\ mempool_contains(t, pool_out, ptr)
        \/ thread_step(t)
        \/ thread_exit(t)

SpecLayout == Init /\ [][NextLayout]_vars

\* C40: once mempool_init has succeeded, no step of an alloc, free, reset,
\* get_stats, contains or set_sync call changes total_blocks, block_size,
\* blocks_start, the bitmap's address or its size; so the range and
\* alignment checks that free and contains make before (or without) the
\* lock give what they give on the pool as init left it, whatever the other
\* threads are doing.
C40_LayoutIsImmutable ==
    [][pool.initialized =>
          LET first == hist.initial.pool
              started(t) == thread[t].pc = "idle" /\ thread'[t].pc # "idle"
          IN  /\ pool'.total_blocks = pool.total_blocks
              /\ pool'.block_size = pool.block_size
              /\ pool'.blocks_start = pool.blocks_start
              /\ pool'.pool_buffer_start = pool.pool_buffer_start
              /\ pool'.bitmap = pool.bitmap
              /\ pool'.bitmap_bytes = pool.bitmap_bytes
              /\ pool'.alignment = pool.alignment
              /\ DOMAIN bitmap' = DOMAIN bitmap
              /\ pool'.initialized
              /\ \A t \in Clients :
                    (started(t) /\ thread'[t].op = "free") =>
                        thread'[t].result = FreePreCheck(first, thread'[t].arg)
              /\ (ret'.op = "contains" /\ ret'.pool # NULL /\ ret'.arg # NULL) =>
                    ret'.result =
                        (/\ ret'.arg >= first.blocks_start
                         /\ ret'.arg < first.blocks_start
                                        + first.total_blocks * first.block_size)
         ]_vars

\* while one worker is inside the critical section of mempool_reset and has
\* rebuilt the free list, the other is told that the first block is inside
\* the pool; blocks have been handed out and freed since init
C40_Witness ==
    /\ thread[1].op = "reset" /\ thread[1].pc = "reset_363"
    /\ ret.op = "contains" /\ ret.client = 2 /\ ret.result = TRUE
    /\ ret.arg = pool.blocks_start
    /\ pool.total_blocks = 2
    /\ pool.stats.free_count > 0

====
